---- MODULE Spec2Model ----
(***************************************************************************)
(* Paper ingestion and enrichment pipeline of infrared-zenith:             *)
(*   - src/src/lib/arxiv.ts     getCleanId, fetchWithRetry, searchArxiv    *)
(*   - src/src/lib/analyzer.ts  analyzePdfBuffer and the server actions    *)
(*     (savePaperAction, deletePaperAction, ... over the Prisma store)     *)
(*                                                                         *)
(* Strings are sequences of tokens; a token is a run of characters that    *)
(* the code's regular expressions never split ("http", "s", "://", ...).   *)
(* Eight specifications share the module: SpecNorm (identifier             *)
(* normalisation), SpecSearch (one searchArxiv call), SpecAnalyze (one     *)
(* analyzePdfBuffer call), Spec (the catalog under save, delete and the    *)
(* enrichment units), SpecCuration (the catalog under save, the            *)
(* enrichment units, regenerate and the tag editor), SpecLibrary           *)
(* (SpecCuration and delete), SpecAttach (two writers of topics whose      *)
(* database calls interleave) and SpecSession (the actions that need a     *)
(* session, called without one).                                           *)
(***************************************************************************)
EXTENDS Integers, Sequences, FiniteSets, TLC

VARIABLES
    \* ---- identifier normalisation (SpecNorm)
    rawId,      \* the identifier handed to getCleanId
    norm,       \* the results of getCleanId on the forms of rawId, once done
    \* ---- one searchArxiv call (SpecSearch)
    spc,        \* "idle" | "fetching" | "parsing" | "returned" | "raised"
    retries,    \* fetchWithRetry's parameter `retries` of the current attempt
    backoff,    \* fetchWithRetry's parameter `backoff` of the current attempt
    attempts,   \* number of axios.get requests issued by this call
    waits,      \* the setTimeout delays slept so far, in order
    responses,  \* the outcome of every request so far, in order
    feed,       \* the feed document the remote would answer with
    sresult,    \* value searchArxiv returned (a sequence of records)
    \* ---- one analyzePdfBuffer call (SpecAnalyze)
    modelText,  \* response.text() the generative model would answer with
    analysis,   \* the outcome of analyzePdfBuffer, once done
    \* ---- the catalog and the server actions (Spec, SpecCuration)
    apiKeySet,  \* process.env.GEMINI_API_KEY is set
    users,      \* User rows: [id, email, name]
    papers,     \* Paper rows, a function from the primary key `id` to the row
    saved,      \* SavedPaper rows: [userId, paperId, savedAt]
    topics,     \* Topic rows: [id, name]
    paperTopics,\* Paper<->Topic edges: <<paperId, topicId>>
    clock,      \* the database's now(), one tick per SavedPaper row created
    calls,      \* per caller: the server action in flight
    lastResult, \* outcome of the server action that completed last
    units,      \* detached enrichment units in flight: unit -> how many
    failedLog,  \* paper ids console.error reported a failed analysis for
    nSaves,     \* savePaperAction calls that passed getCurrentUser so far
    ops         \* two overlapping topic writers, each at a database step

normVars   == <<rawId, norm>>
searchVars == <<spc, retries, backoff, attempts, waits, responses, feed, sresult>>
analyzerVars == <<modelText, analysis>>
storeVars  == <<users, papers, saved, topics, paperTopics, clock>>
catVars    == <<apiKeySet, users, papers, saved, topics, paperTopics, clock,
                calls, lastResult, units, failedLog, nSaves, ops>>
vars       == <<rawId, norm, spc, retries, backoff, attempts, waits, responses,
                feed, sresult, modelText, analysis, apiKeySet, users, papers, saved, topics,
                paperTopics, clock, calls, lastResult, units, failedLog,
                nSaves, ops>>

----------------------------------------------------------------------------
(* Strings: sequences of tokens. null and undefined are reserved          *)
(* one-token sequences, the empty string is the empty sequence.            *)

Null      == <<"null!">>
Undefined == <<"undefined!">>
EmptyStr  == <<>>

\* s begins with the token sequence p
StartsWith(s, p) ==
    /\ Len(s) >= Len(p)
    /\ SubSeq(s, 1, Len(p)) = p

\* s.replace(/^p/, ''): remove p when s begins with it, else s unchanged
ReplacePrefix(s, p) ==
    IF StartsWith(s, p) THEN SubSeq(s, Len(p) + 1, Len(s)) ELSE s

HttpAbsPrefix  == <<"http", "://", "arxiv.org", "/abs/">>
HttpsAbsPrefix == <<"http", "s", "://", "arxiv.org", "/abs/">>
\* encodeURIComponent of the two prefixes (":" -> %3A, "/" -> %2F)
EncHttpAbsPrefix  == <<"http", "%3A%2F%2F", "arxiv.org", "%2Fabs%2F">>
EncHttpsAbsPrefix == <<"http", "s", "%3A%2F%2F", "arxiv.org", "%2Fabs%2F">>

\* a plausible slip: only the http form is stripped
getCleanIdHttpOnly(id) == ReplacePrefix(id, HttpAbsPrefix)

getCleanId(id) ==
    ReplacePrefix(ReplacePrefix(id, HttpAbsPrefix), HttpsAbsPrefix)

\* encodeURIComponent, token by token: ":" becomes %3A and "/" becomes %2F
EncToken(t) ==
    CASE t = "://" -> "%3A%2F%2F"
      [] t = "/abs/" -> "%2Fabs%2F"
      [] t = "/pdf/" -> "%2Fpdf%2F"
      [] t = "/9901001" -> "%2F9901001"
      [] OTHER -> t
encodeURIComponent(s) == [i \in 1..Len(s) |-> EncToken(s[i])]

\* the first index at or after i where 'arxiv.org%2Fabs%2F' begins in s,
\* Len(s) + 1 when there is none
RECURSIVE EncodedAbsAt(_, _)
EncodedAbsAt(s, i) ==
    IF i >= Len(s) THEN Len(s) + 1
    ELSE IF s[i] = "arxiv.org" /\ s[i + 1] = "%2Fabs%2F" THEN i
    ELSE EncodedAbsAt(s, i + 1)

\* id.includes('arxiv.org%2Fabs%2F') ? id.split('arxiv.org%2Fabs%2F')[1] : id
\* (analyzer.ts 438-440): what stands between the first and the second
\* occurrence of the separator
ArxivIdOf(id) ==
    LET i == EncodedAbsAt(id, 1)
    IN IF i > Len(id) THEN id
       ELSE LET rest == SubSeq(id, i + 2, Len(id))
                j == EncodedAbsAt(rest, 1)
            IN SubSeq(rest, 1, j - 1)

----------------------------------------------------------------------------
(* Identifier normalisation: getCleanId applied to drawn inputs *)

MaxTail == 2

\* characters of a bare arXiv id: 2106.09685v2 = <<"2106.09685", "v2">>, and
\* hep-th/9901001, an id of the scheme in use before 2007, =
\* <<"hep-th", "/9901001">>
IdTokens == {"2106.09685", "v2", "hep-th", "/9901001"}
TailTokens == IdTokens \cup {"http", "/abs/"}
Tails == UNION {[1..n -> TailTokens] : n \in 0..MaxTail}
PrefixForms == {<<>>, HttpAbsPrefix, HttpsAbsPrefix, EncHttpAbsPrefix}

\* the identifiers a caller may hand in: up to two stacked prefixes and a tail
IdInputs == {p \o q \o t : p \in PrefixForms, q \in PrefixForms, t \in Tails}

IsBareId(s) == s # <<>> /\ \A i \in 1..Len(s) : s[i] \in IdTokens

InitNorm ==
    /\ rawId \in IdInputs
    /\ norm = [done |-> FALSE, bare |-> <<>>, http |-> <<>>, https |-> <<>>,
               enc |-> <<>>, page |-> <<>>, twice |-> <<>>]

\* getCleanId on rawId taken as it is and on its URL forms; page is the
\* URL-encoded form as getPaperByIdAction takes it in
NormalizeForms ==
    /\ ~norm.done
    /\ norm' = [ done  |-> TRUE,
                 bare  |-> getCleanId(rawId),
                 http  |-> getCleanId(HttpAbsPrefix \o rawId),
                 https |-> getCleanId(HttpsAbsPrefix \o rawId),
                 enc   |-> getCleanId(encodeURIComponent(HttpAbsPrefix \o rawId)),
                 page  |-> getCleanId(ArxivIdOf(
                               encodeURIComponent(HttpAbsPrefix \o rawId))),
                 twice |-> getCleanId(getCleanId(rawId)) ]
    /\ UNCHANGED rawId
    /\ UNCHANGED <<searchVars, analyzerVars, catVars>>

----------------------------------------------------------------------------
(* searchArxiv: one call, its requests and its parse *)

MaxEntries == 2

DefaultRetries == 3
DefaultBackoff == 1000

\* text with whitespace: title/summary of a feed entry
Whitespace == {" ", "\n"}

RECURSIVE TrimStart(_)
TrimStart(s) ==
    IF s # <<>> /\ Head(s) \in Whitespace THEN TrimStart(Tail(s)) ELSE s

RECURSIVE TrimEnd(_)
TrimEnd(s) ==
    IF s # <<>> /\ s[Len(s)] \in Whitespace
    THEN TrimEnd(SubSeq(s, 1, Len(s) - 1)) ELSE s

\* s.replace(/\s+/g, ' ')
RECURSIVE CollapseWhitespace(_)
CollapseWhitespace(s) ==
    IF s = <<>> THEN <<>>
    ELSE IF Head(s) \in Whitespace
         THEN <<" ">> \o CollapseWhitespace(TrimStart(s))
         ELSE <<Head(s)>> \o CollapseWhitespace(Tail(s))

\* s.trim().replace(/\s+/g, ' ')
CleanText(s) == CollapseWhitespace(TrimEnd(TrimStart(s)))

\* entries of the feed document. wellFormed = FALSE: an element the mapping
\* dereferences (title, summary, author, published, link) is missing.
EntryIds == {HttpAbsPrefix \o <<"2106.09685", "v2">>,
             HttpsAbsPrefix \o <<"2106.09685", "v2">>}
EntryTitles == {<<"LoRA">>, <<" ", "LoRA", "\n", " ", "Low-Rank", " ">>}
FeedEntries ==
    [ id : EntryIds, title : EntryTitles, pdfHref : {Undefined, <<"pdf-url">>},
      wellFormed : {TRUE} ]
    \cup
    [ id : {HttpAbsPrefix \o <<"2106.09685", "v2">>}, title : {<<"LoRA">>},
      pdfHref : {Undefined}, wellFormed : {FALSE} ]

\* what the remote answers a successful request with
FeedDocuments ==
    {[kind |-> "unparsable", entry |-> <<>>], [kind |-> "nofeed", entry |-> <<>>]}
    \cup
    {[kind |-> "feed", entry |-> es] :
        es \in UNION {[1..n -> FeedEntries] : n \in 0..MaxEntries}}

Returned(v) == [kind |-> "value", value |-> v]
Thrown == [kind |-> "throw", value |-> <<>>]

\* the object built from one entry (arxiv.ts 49-57)
MapEntry(e) ==
    [ id      |-> getCleanId(e.id),
      title   |-> CleanText(e.title),
      link    |-> e.id,
      pdfLink |-> e.pdfHref ]

\* parseStringPromise + entries.map (arxiv.ts 46-57): a value or an exception
ParseAndMap(doc) ==
    IF doc.kind # "feed" THEN Thrown
    ELSE IF \E i \in 1..Len(doc.entry) : ~doc.entry[i].wellFormed THEN Thrown
    ELSE Returned([i \in 1..Len(doc.entry) |-> MapEntry(doc.entry[i])])

\* a plausible slip: the exception leaves searchArxiv
SettleNoCatch(r) ==
    IF r.kind = "throw" THEN [spc |-> "raised", value |-> <<>>]
    ELSE [spc |-> "returned", value |-> r.value]

\* the try/catch of searchArxiv (arxiv.ts 37, 58-61)
Settle(r) ==
    IF r.kind = "throw" THEN [spc |-> "returned", value |-> <<>>]
    ELSE [spc |-> "returned", value |-> r.value]

InitSearch ==
    /\ spc = "idle"
    /\ retries = DefaultRetries
    /\ backoff = DefaultBackoff
    /\ attempts = 0
    /\ waits = <<>>
    /\ responses = <<>>
    /\ feed = [kind |-> "nofeed", entry |-> <<>>]
    /\ sresult = <<>>

\* searchArxiv is called; fetchWithRetry starts with its default parameters
SearchStart ==
    /\ spc = "idle"
    /\ \E doc \in FeedDocuments : feed' = doc
    /\ spc' = "fetching"
    /\ retries' = DefaultRetries
    /\ backoff' = DefaultBackoff
    /\ attempts' = 0
    /\ waits' = <<>>
    /\ responses' = <<>>
    /\ sresult' = <<>>
    /\ UNCHANGED <<normVars, analyzerVars, catVars>>

\* axios.get resolves
FetchOk ==
    /\ spc = "fetching"
    /\ attempts' = attempts + 1
    /\ responses' = Append(responses, "ok")
    /\ spc' = "parsing"
    /\ UNCHANGED <<retries, backoff, waits, feed, sresult>>
    /\ UNCHANGED <<normVars, analyzerVars, catVars>>

\* a plausible slip: the last retry is not taken
FetchRateLimitedOffByOne ==
    /\ spc = "fetching"
    /\ attempts' = attempts + 1
    /\ responses' = Append(responses, "429")
    /\ IF retries > 1
       THEN /\ waits' = Append(waits, backoff)
            /\ retries' = retries - 1
            /\ backoff' = backoff * 2
            /\ UNCHANGED <<spc, sresult>>
       ELSE /\ spc' = Settle(Thrown).spc
            /\ sresult' = Settle(Thrown).value
            /\ UNCHANGED <<retries, backoff, waits>>
    /\ UNCHANGED feed
    /\ UNCHANGED <<normVars, analyzerVars, catVars>>

\* a plausible slip: one retry too many
FetchRateLimitedInclusive ==
    /\ spc = "fetching"
    /\ attempts' = attempts + 1
    /\ responses' = Append(responses, "429")
    /\ IF retries >= 0
       THEN /\ waits' = Append(waits, backoff)
            /\ retries' = retries - 1
            /\ backoff' = backoff * 2
            /\ UNCHANGED <<spc, sresult>>
       ELSE /\ spc' = Settle(Thrown).spc
            /\ sresult' = Settle(Thrown).value
            /\ UNCHANGED <<retries, backoff, waits>>
    /\ UNCHANGED feed
    /\ UNCHANGED <<normVars, analyzerVars, catVars>>

\* a plausible slip: the wait grows by the first wait, not by doubling
FetchRateLimitedLinear ==
    /\ spc = "fetching"
    /\ attempts' = attempts + 1
    /\ responses' = Append(responses, "429")
    /\ IF retries > 0
       THEN /\ waits' = Append(waits, backoff)
            /\ retries' = retries - 1
            /\ backoff' = backoff + DefaultBackoff
            /\ UNCHANGED <<spc, sresult>>
       ELSE /\ spc' = Settle(Thrown).spc
            /\ sresult' = Settle(Thrown).value
            /\ UNCHANGED <<retries, backoff, waits>>
    /\ UNCHANGED feed
    /\ UNCHANGED <<normVars, analyzerVars, catVars>>

\* axios.get rejects with status 429 (arxiv.ts 20-26)
FetchRateLimited ==
    /\ spc = "fetching"
    /\ attempts' = attempts + 1
    /\ responses' = Append(responses, "429")
    /\ IF retries > 0
       THEN /\ waits' = Append(waits, backoff)
            /\ retries' = retries - 1
            /\ backoff' = backoff * 2
            /\ UNCHANGED <<spc, sresult>>
       ELSE /\ spc' = Settle(Thrown).spc
            /\ sresult' = Settle(Thrown).value
            /\ UNCHANGED <<retries, backoff, waits>>
    /\ UNCHANGED feed
    /\ UNCHANGED <<normVars, analyzerVars, catVars>>

\* a plausible slip: the status is not tested, every rejection is retried
FetchOtherErrorRetried ==
    /\ spc = "fetching"
    /\ attempts' = attempts + 1
    /\ responses' = Append(responses, "error")
    /\ IF retries > 0
       THEN /\ waits' = Append(waits, backoff)
            /\ retries' = retries - 1
            /\ backoff' = backoff * 2
            /\ UNCHANGED <<spc, sresult>>
       ELSE /\ spc' = Settle(Thrown).spc
            /\ sresult' = Settle(Thrown).value
            /\ UNCHANGED <<retries, backoff, waits>>
    /\ UNCHANGED feed
    /\ UNCHANGED <<normVars, analyzerVars, catVars>>

\* axios.get rejects otherwise: another status, or no response at all
FetchOtherError ==
    /\ spc = "fetching"
    /\ attempts' = attempts + 1
    /\ responses' = Append(responses, "error")
    /\ spc' = Settle(Thrown).spc
    /\ sresult' = Settle(Thrown).value
    /\ UNCHANGED <<retries, backoff, waits, feed>>
    /\ UNCHANGED <<normVars, analyzerVars, catVars>>

\* the response is parsed and mapped, and searchArxiv returns
ParseResponse ==
    /\ spc = "parsing"
    /\ spc' = Settle(ParseAndMap(feed)).spc
    /\ sresult' = Settle(ParseAndMap(feed)).value
    /\ UNCHANGED <<retries, backoff, attempts, waits, responses, feed>>
    /\ UNCHANGED <<normVars, analyzerVars, catVars>>

----------------------------------------------------------------------------
(* The catalog: rows and the Prisma operations the server actions issue.   *)
(* Every Prisma call is one atomic database operation: the three upserts  *)
(* name only their unique key in `where`, repeat it in `create` and nest   *)
(* no relation write, the shape Prisma sends as one INSERT .. ON CONFLICT. *)
(* An action is one await of a server action, except where the awaited     *)
(* operations touch rows of the caller alone. A signed-in caller has one   *)
(* server action in flight at a time.                                      *)
(* The Prisma schema is not among the sources: the key of Paper is the     *)
(* migration's PRIMARY KEY, the unique key of SavedPaper is the            *)
(* userId_paperId the actions name, savedAt is the column                  *)
(* getSavedPapersAction orders by, set when the row is created.            *)

MaxSaves == 3

\* the signed-in identities; a caller without a session is the *Unauthorized
\* actions
Emails == {"ann@example.org", "bob@example.org"}

Bare1  == <<"2106.09685", "v2">>
UrlId1 == HttpAbsPrefix \o Bare1    \* the id scripts/verify-multi-user.ts saves
PaperKeys == {Bare1, UrlId1}

PdfUrl == <<"http", "://", "arxiv.org", "/pdf/", "2106.09685">>

\* an ArxivPaper handed to savePaperAction; v selects the bibliographic data
Rec(id, v, pdf) ==
    [ id        |-> id,
      title     |-> IF v = 1 THEN <<"LoRA">> ELSE <<"LoRA", " ", "revised">>,
      authors   |-> IF v = 1 THEN <<"Hu", "Shen">> ELSE <<"Hu", "Shen", "Wallis">>,
      summary   |-> IF v = 1 THEN <<"We propose">> ELSE <<"We", "revise">>,
      published |-> IF v = 1 THEN <<"2021-06-17">> ELSE <<"2021-10-16">>,
      link      |-> IF v = 1 THEN <<"abs-link">> ELSE <<"abs-link", "v2">>,
      pdfLink   |-> pdf ]

\* a search result with its PDF link, the same paper as the details page
\* sends it when it knows no PDF link (pdfLink: ''), and a record keyed by
\* the feed's URL, without the optional pdfLink
Records ==
    { Rec(Bare1, 1, PdfUrl), Rec(Bare1, 2, EmptyStr), Rec(UrlId1, 1, Undefined) }

\* JSON.stringify / JSON.parse of the authors array
JSONstringify(a) == [json |-> a]
JSONparse(s) == s.json
\* new Date(s)
NewDate(s) == [date |-> s]

\* a plausible slip: a test against null instead of a test for truthiness
NotNullish(x) == x \notin {Undefined, Null}

\* JavaScript truthiness of an optional string
Truthy(x) == x \notin {Undefined, Null, EmptyStr}

\* Prisma: a field given as undefined is left out of the write
SetField(old, new) == IF new = Undefined THEN old ELSE new

\* url.replace(/^http:\/\//, 'https://')
SecureUrl(url) ==
    IF StartsWith(url, <<"http", "://">>)
    THEN <<"http", "s", "://">> \o SubSeq(url, 3, Len(url))
    ELSE url

\* a plausible slip: the create branch leaves the PDF link out
PaperCreateNoPdf(r) ==
    [ id            |-> r.id,
      title         |-> r.title,
      authors       |-> JSONstringify(r.authors),
      abstract      |-> r.summary,
      summary       |-> Null,
      institution   |-> Null,
      url           |-> r.link,
      publishedDate |-> NewDate(r.published),
      filePath      |-> Null ]

\* the create branch of prisma.paper.upsert (analyzer.ts 478-488)
PaperCreate(r) ==
    [ id            |-> r.id,
      title         |-> r.title,
      authors       |-> JSONstringify(r.authors),
      abstract      |-> r.summary,
      summary       |-> Null,
      institution   |-> Null,
      url           |-> r.link,
      publishedDate |-> NewDate(r.published),
      filePath      |-> SetField(Null, r.pdfLink) ]

\* a plausible slip: the update resets the AI fields as the create does
PaperUpdateClobber(row, r) ==
    [ row EXCEPT
      !.title         = r.title,
      !.authors       = JSONstringify(r.authors),
      !.abstract      = r.summary,
      !.summary       = Null,
      !.institution   = Null,
      !.url           = r.link,
      !.publishedDate = NewDate(r.published),
      !.filePath      = SetField(row.filePath, r.pdfLink) ]

\* the update branch of prisma.paper.upsert (analyzer.ts 470-477)
PaperUpdate(row, r) ==
    [ row EXCEPT
      !.title         = r.title,
      !.authors       = JSONstringify(r.authors),
      !.abstract      = r.summary,
      !.url           = r.link,
      !.publishedDate = NewDate(r.published),
      !.filePath      = SetField(row.filePath, r.pdfLink) ]

\* prisma.paper.upsert({ where: { id: paper.id }, ... }) (analyzer.ts 468-489)
UpsertPaper(ps, r) ==
    IF r.id \in DOMAIN ps
    THEN [ps EXCEPT ![r.id] = PaperUpdate(ps[r.id], r)]
    ELSE [k \in DOMAIN ps \cup {r.id} |->
            IF k = r.id THEN PaperCreate(r) ELSE ps[k]]

\* a plausible slip: create instead of upsert, a row per save
UpsertSavedPaperAlwaysCreate(sv, uid, pid, now) ==
    sv \cup {[userId |-> uid, paperId |-> pid, savedAt |-> now]}

\* prisma.savedPaper.upsert on userId_paperId, update: {} (analyzer.ts 492-504)
UpsertSavedPaper(sv, uid, pid, now) ==
    IF \E s \in sv : s.userId = uid /\ s.paperId = pid
    THEN sv
    ELSE sv \cup {[userId |-> uid, paperId |-> pid, savedAt |-> now]}

UserByEmail(us, email) == CHOOSE u \in us : u.email = email

\* a plausible slip: user.create in place of the upsert
CreateUser(us, email) ==
    us \cup {[id |-> Cardinality(us) + 1, email |-> email, name |-> email]}

\* prisma.user.upsert({ where: { email }, ... }) (analyzer.ts 352-361)
UpsertUser(us, email) ==
    IF \E u \in us : u.email = email
    THEN {IF u.email = email THEN [u EXCEPT !.name = email] ELSE u : u \in us}
    ELSE us \cup {[id |-> Cardinality(us) + 1, email |-> email, name |-> email]}

----------------------------------------------------------------------------
(* analyzePdfBuffer: the model's response text and its defensive parse *)

\* the topic labels the prompt allows (analyzer.ts 28-38)
AllowedTopics ==
    { "Distributed Machine Learning", "Model Performance Optimization",
      "Personalized Advertising", "Recommendation System",
      "Generative Recommendation", "Reinforcement Learning", "Agent",
      "Large Language Models", "Model Architecture" }

\* tokens that are the text of a JSON object, and the object each denotes
\* "{C}" is a well-formed object that does not keep to the prompt: no
\* institution key, and two topics, one of them outside the allowed list
JsonTokens == {"{A}", "{B}", "{C}"}
JsonValue(tok) ==
    IF tok = "{A}"
    THEN [ summary |-> <<"S">>, institution |-> <<"I">>,
           topics |-> <<"Agent", "Large Language Models", "Model Architecture">> ]
    ELSE IF tok = "{B}"
    THEN [ summary |-> <<"S2">>, institution |-> <<"I2">>,
           topics |-> <<"Agent", "Reinforcement Learning", "Recommendation System">> ]
    ELSE [ summary |-> <<"S3">>, institution |-> Undefined,
           topics |-> <<"Agent", "Quantum Computing">> ]

\* response.text() of the generative model; "<fence>" is the three-backtick
\* code-fence marker
ModelTexts ==
    { <<"<fence>json", "\n", "{A}", "\n", "<fence>">>,
      <<"{C}", "\n">>,
      <<"Sorry", " ", "no", " ", "summary">> }

\* the global replace that deletes the code-fence markers (analyzer.ts 69)
RECURSIVE StripFences(_)
StripFences(s) ==
    IF s = <<>> THEN <<>>
    ELSE IF Head(s) \in {"<fence>json", "<fence>"} THEN StripFences(Tail(s))
    ELSE <<Head(s)>> \o StripFences(Tail(s))

\* text.replace(fences, '').trim() (analyzer.ts 69)
CleanJsonString(text) == TrimEnd(TrimStart(StripFences(text)))

\* JSON.parse(s) returns: s is the text of one JSON value and nothing else
ParsesAsJson(s) == Len(s) = 1 /\ s[1] \in JsonTokens

\* a plausible slip: the fallback's summary is the cleaned string
analyzePdfBufferCleanFallback(keySet, transportOk, text) ==
    IF ~keySet THEN Thrown
    ELSE IF ~transportOk THEN Thrown
    ELSE LET jsonString == CleanJsonString(text) IN
         IF ParsesAsJson(jsonString)
         THEN Returned(JsonValue(jsonString[1]))
         ELSE Returned([summary |-> jsonString, institution |-> EmptyStr,
                        topics |-> <<>>])

\* analyzer.ts 17-86: Thrown, or the parsed object, or the raw-text fallback
analyzePdfBuffer(keySet, transportOk, text) ==
    IF ~keySet THEN Thrown
    ELSE IF ~transportOk THEN Thrown
    ELSE LET jsonString == CleanJsonString(text) IN
         IF ParsesAsJson(jsonString)
         THEN Returned(JsonValue(jsonString[1]))
         ELSE Returned([summary |-> text, institution |-> EmptyStr,
                        topics |-> <<>>])

\* the answers given to one analyzePdfBuffer call: a body, bare or
\* wrapped in code fences or in white space
ResponseBodies ==
    { <<"{A}">>, <<"{B}">>, <<"{C}">>,
      <<"{A}", " ", "Hope", " ", "this", " ", "helps">>,
      <<"Sorry", " ", "no", " ", "summary">>,
      <<>> }
ResponseTexts ==
    UNION { { b,
              <<"<fence>json", "\n">> \o b \o <<"\n", "<fence>">>,
              <<"<fence>">> \o b \o <<"<fence>">>,
              <<"\n">> \o b \o <<" ", "\n">> } : b \in ResponseBodies }

\* a plausible slip: no test of the key, the client is built with ''
RequestsSentUnchecked(keySet) == 1

\* the generateContent calls one analyzePdfBuffer call makes: the test of
\* GEMINI_API_KEY stands before the try, so none without the key
\* (analyzer.ts 18-20, 28-63)
RequestsSent(keySet) == IF keySet THEN 1 ELSE 0

\* the message of the Error the call throws, "none" when it returns: the
\* throw of line 19 is outside the try and keeps its message, a throw inside
\* is wrapped by the catch (analyzer.ts 18-20, 82-85)
ErrorOf(keySet, transportOk) ==
    IF ~keySet THEN "GEMINI_API_KEY not found in environment variables."
    ELSE IF ~transportOk THEN "Failed to analyze PDF."
    ELSE "none"

AnalyzerIdle ==
    /\ modelText = <<>>
    /\ analysis = [done |-> FALSE, transportOk |-> FALSE, out |-> Thrown,
                   requests |-> 0, error |-> "none"]

InitAnalyze ==
    /\ modelText \in ResponseTexts
    /\ analysis = [done |-> FALSE, transportOk |-> FALSE, out |-> Thrown,
                   requests |-> 0, error |-> "none"]

\* one call of analyzePdfBuffer; transportOk: generateContent and
\* result.response resolved
Analyze ==
    /\ ~analysis.done
    /\ \E transportOk \in BOOLEAN :
          analysis' = [done |-> TRUE, transportOk |-> transportOk,
                       out |-> analyzePdfBuffer(apiKeySet, transportOk, modelText),
                       requests |-> RequestsSent(apiKeySet),
                       error |-> ErrorOf(apiKeySet, transportOk)]
    /\ UNCHANGED <<modelText, apiKeySet, users, papers, saved, topics,
                   paperTopics, clock, calls, lastResult, units, failedLog,
                   nSaves, ops>>
    /\ UNCHANGED <<normVars, searchVars>>

----------------------------------------------------------------------------
(* Topics and the merge of an analysis result *)

TopicByName(tp, name) == CHOOSE t \in tp : t.name = name

\* connectOrCreate, the find-or-insert half, for each name in order
RECURSIVE CreateMissingTopics(_, _)
CreateMissingTopics(tp, names) ==
    IF names = <<>> THEN tp
    ELSE LET n == Head(names)
             tp1 == IF \E t \in tp : t.name = n THEN tp
                    ELSE tp \cup {[id |-> Cardinality(tp) + 1, name |-> n]}
         IN CreateMissingTopics(tp1, Tail(names))

\* a plausible slip: create instead of upsert
UpsertTopicAlwaysCreate(tp, name) ==
    tp \cup {[id |-> Cardinality(tp) + 1, name |-> name]}

\* prisma.topic.upsert({ where: { name }, update: {}, create: { name } })
\* (analyzer.ts 632-636)
UpsertTopic(tp, name) ==
    IF \E t \in tp : t.name = name THEN tp
    ELSE tp \cup {[id |-> Cardinality(tp) + 1, name |-> name]}

\* result.topics?.map(...) || [] (analyzer.ts 526-529)
TopicsOf(result) == IF result.topics = Undefined THEN <<>> ELSE result.topics

\* a plausible slip: create instead of connectOrCreate, the rows are made
\* and no edge is
MergeEnrichmentNoConnect(st, paperId, result) ==
    [ papers |-> [st.papers EXCEPT
                    ![paperId].summary = SetField(@, result.summary),
                    ![paperId].institution = SetField(@, result.institution)],
      topics |-> CreateMissingTopics(st.topics, TopicsOf(result)),
      paperTopics |-> st.paperTopics ]

\* a plausible slip: the summary is written to the abstract column, which the
\* reads fall back to
MergeEnrichmentIntoAbstract(st, paperId, result) ==
    LET names == TopicsOf(result)
        tp == CreateMissingTopics(st.topics, names)
    IN [ papers |-> [st.papers EXCEPT
                       ![paperId].abstract = SetField(@, result.summary),
                       ![paperId].institution = SetField(@, result.institution)],
         topics |-> tp,
         paperTopics |-> st.paperTopics \cup
             {<<paperId, TopicByName(tp, names[i]).id>> : i \in 1..Len(names)} ]

\* prisma.paper.update with summary, institution and connectOrCreate topics
\* (analyzer.ts 521-533, 569-581), on a store st = [papers, topics, paperTopics];
\* a key the analysis lacks is undefined in data, so its column is left out
MergeEnrichment(st, paperId, result) ==
    LET names == TopicsOf(result)
        tp == CreateMissingTopics(st.topics, names)
    IN [ papers |-> [st.papers EXCEPT
                       ![paperId].summary = SetField(@, result.summary),
                       ![paperId].institution = SetField(@, result.institution)],
         topics |-> tp,
         paperTopics |-> st.paperTopics \cup
             {<<paperId, TopicByName(tp, names[i]).id>> : i \in 1..Len(names)} ]

----------------------------------------------------------------------------
(* The server actions *)

NoRec == Rec(<<>>, 1, Undefined)
\* a caller's position: idle, or inside savePaperAction between the paper
\* upsert and the link upsert; created tells whether the paper upsert of the
\* call took its create branch
IdleCall ==
    [pc |-> "idle", id |-> <<>>, rec |-> NoRec, uid |-> 0, created |-> FALSE]

\* what savePaperAction spawns for a record (analyzer.ts 507-518)
UnitOf(r) == [paperId |-> r.id, url |-> SecureUrl(r.pdfLink)]
AllUnits == {UnitOf(r) : r \in {q \in Records : Truthy(q.pdfLink)}}

\* two writers of topics that overlap: a writer is idle, or a merge between
\* its look-up of the topic names and its write, or addTopicToPaperAction
\* between its two awaited calls; seen are the names the look-up found
OpIds == {1, 2}
IdleOp == [pc |-> "idle", k |-> <<>>, text |-> <<>>, name |-> "", seen |-> {}]

InitCatalog ==
    /\ apiKeySet \in BOOLEAN
    /\ users = {}
    /\ papers = <<>>
    /\ saved = {}
    /\ topics = {}
    /\ paperTopics = {}
    /\ clock = 0
    /\ calls = [c \in Emails |-> IdleCall]
    /\ lastResult = "none"
    /\ units = [u \in AllUnits |-> 0]
    /\ failedLog = {}
    /\ nSaves = 0
    /\ ops = [o \in OpIds |-> IdleOp]

\* a plausible slip: the session is looked at after the paper upsert
SaveUnauthorizedAfterUpsert(r) ==
    /\ papers' = UpsertPaper(papers, r)
    /\ lastResult' = "Unauthorized"
    /\ UNCHANGED <<apiKeySet, users, saved, topics, paperTopics, clock,
                   calls, units, nSaves>>
    /\ UNCHANGED failedLog
    /\ UNCHANGED <<normVars, searchVars, analyzerVars, ops>>

\* savePaperAction is called without a session: getCurrentUser throws
\* (analyzer.ts 465, 333-337)
SaveUnauthorized(r) ==
    /\ lastResult' = "Unauthorized"
    /\ UNCHANGED <<apiKeySet, users, papers, saved, topics, paperTopics, clock,
                   calls, units, nSaves>>
    /\ UNCHANGED failedLog
    /\ UNCHANGED <<normVars, searchVars, analyzerVars, ops>>

\* savePaperAction is called: getCurrentUser, then step 1, the paper upsert
\* (analyzer.ts 465-489). The user upsert writes the caller's User row
\* alone, which no other caller reads, so it is taken with the paper upsert.
SavePaperUpsert(c, r) ==
    /\ calls[c].pc = "idle"
    /\ nSaves < MaxSaves
    /\ nSaves' = nSaves + 1
    /\ users' = UpsertUser(users, c)
    /\ papers' = UpsertPaper(papers, r)
    /\ calls' = [calls EXCEPT ![c] =
           [pc |-> "link", id |-> r.id, rec |-> r,
            uid |-> UserByEmail(users', c).id,
            created |-> r.id \notin DOMAIN papers]]
    /\ UNCHANGED <<apiKeySet, saved, topics, paperTopics, clock, units,
                   lastResult>>
    /\ UNCHANGED failedLog
    /\ UNCHANGED <<normVars, searchVars, analyzerVars, ops>>

\* a plausible slip: the enrichment is awaited before the action returns
SaveLinkAwaitsUnit(c) ==
    /\ calls[c].pc = "link"
    /\ LET r == calls[c].rec
           uid == calls[c].uid
           a == analyzePdfBuffer(apiKeySet, TRUE, <<"{A}">>)
           st == IF Truthy(r.pdfLink) /\ a.kind = "value"
                 THEN MergeEnrichment(
                          [papers |-> papers, topics |-> topics,
                           paperTopics |-> paperTopics], r.id, a.value)
                 ELSE [papers |-> papers, topics |-> topics,
                       paperTopics |-> paperTopics]
       IN /\ saved' = UpsertSavedPaper(saved, uid, r.id, clock + 1)
          /\ clock' = IF saved' = saved THEN clock ELSE clock + 1
          /\ papers' = st.papers
          /\ topics' = st.topics
          /\ paperTopics' = st.paperTopics
    /\ calls' = [calls EXCEPT ![c] = IdleCall]
    /\ lastResult' = "ok"
    /\ UNCHANGED <<apiKeySet, users, units, nSaves>>
    /\ UNCHANGED failedLog
    /\ UNCHANGED <<normVars, searchVars, analyzerVars, ops>>

\* a plausible slip: no unit is started for a paper that has a summary
SaveLinkSkipsEnriched(c) ==
    /\ calls[c].pc = "link"
    /\ LET r == calls[c].rec
           uid == calls[c].uid
       IN /\ saved' = UpsertSavedPaper(saved, uid, r.id, clock + 1)
          /\ clock' = IF saved' = saved THEN clock ELSE clock + 1
          /\ units' = IF Truthy(r.pdfLink) /\ papers[r.id].summary = Null
                      THEN [units EXCEPT ![UnitOf(r)] = @ + 1]
                      ELSE units
    /\ calls' = [calls EXCEPT ![c] = IdleCall]
    /\ lastResult' = "ok"
    /\ UNCHANGED <<apiKeySet, users, papers, topics, paperTopics, nSaves>>
    /\ UNCHANGED failedLog
    /\ UNCHANGED <<normVars, searchVars, analyzerVars, ops>>

\* savePaperAction, step 2 and return: the link upsert, then the enrichment
\* unit is started without being awaited (analyzer.ts 492-540)
SaveLinkAndReturn(c) ==
    /\ calls[c].pc = "link"
    /\ LET r == calls[c].rec
           uid == calls[c].uid
       IN /\ saved' = UpsertSavedPaper(saved, uid, r.id, clock + 1)
          /\ clock' = IF saved' = saved THEN clock ELSE clock + 1
          /\ units' = IF Truthy(r.pdfLink)
                      THEN [units EXCEPT ![UnitOf(r)] = @ + 1]
                      ELSE units
    /\ calls' = [calls EXCEPT ![c] = IdleCall]
    /\ lastResult' = "ok"
    /\ UNCHANGED <<apiKeySet, users, papers, topics, paperTopics, nSaves>>
    /\ UNCHANGED failedLog
    /\ UNCHANGED <<normVars, searchVars, analyzerVars, ops>>

\* what analyzePdfBuffer returns when the model answers with text
AnalysisOf(text) == analyzePdfBuffer(apiKeySet, TRUE, text)

\* the PDF was fetched, the model answered with text, and the update of
\* paper k with the analysis went through (analyzer.ts 511-534, 569-581)
MergesResult(k, text) ==
    LET a == AnalysisOf(text)
        st == MergeEnrichment(
                  [papers |-> papers, topics |-> topics,
                   paperTopics |-> paperTopics], k, a.value)
    IN /\ a.kind = "value"
       /\ papers' = st.papers
       /\ topics' = st.topics
       /\ paperTopics' = st.paperTopics

\* some outcome of the fetch, of analyzePdfBuffer or of the update ends in
\* the unit's catch
UnitCanThrow ==
    \E fetchOk \in BOOLEAN, transportOk \in BOOLEAN, mergeOk \in BOOLEAN,
       text \in ModelTexts :
        \/ ~fetchOk
        \/ analyzePdfBuffer(apiKeySet, transportOk, text).kind = "throw"
        \/ ~mergeOk

\* a plausible slip: the catch queues the unit again
EnrichmentFailsRequeues(u) ==
    /\ units[u] > 0
    /\ UNCHANGED <<apiKeySet, users, papers, saved, topics, paperTopics, clock,
                   calls, nSaves, lastResult, units>>
    /\ failedLog' = failedLog \cup {u.paperId}
    /\ UNCHANGED <<normVars, searchVars, analyzerVars, ops>>

\* a plausible slip: the catch records the failure on the Paper row and
\* reports it
EnrichmentFailsVisibly(u) ==
    /\ units[u] > 0
    /\ u.paperId \in DOMAIN papers
    /\ units' = [units EXCEPT ![u] = @ - 1]
    /\ papers' = [papers EXCEPT ![u.paperId].summary = EmptyStr]
    /\ lastResult' = "failed"
    /\ UNCHANGED <<apiKeySet, users, saved, topics, paperTopics, clock,
                   calls, nSaves>>
    /\ failedLog' = failedLog \cup {u.paperId}
    /\ UNCHANGED <<normVars, searchVars, analyzerVars, ops>>

\* the detached unit ends in its catch: the PDF fetch, analyzePdfBuffer or
\* the update (one transaction with its nested writes) threw, and the
\* catch logs the paper id (analyzer.ts 535-537)
EnrichmentFails(u) ==
    /\ units[u] > 0
    /\ UnitCanThrow = TRUE
    /\ units' = [units EXCEPT ![u] = @ - 1]
    /\ UNCHANGED <<apiKeySet, users, papers, saved, topics, paperTopics, clock,
                   calls, nSaves, lastResult>>
    /\ failedLog' = failedLog \cup {u.paperId}
    /\ UNCHANGED <<normVars, searchVars, analyzerVars, ops>>

\* the detached unit fetched, analysed and merges its result
\* (analyzer.ts 511-534)
EnrichmentMerges(u) ==
    /\ units[u] > 0
    /\ u.paperId \in DOMAIN papers
    /\ \E text \in ModelTexts : MergesResult(u.paperId, text)
    /\ units' = [units EXCEPT ![u] = @ - 1]
    /\ UNCHANGED <<apiKeySet, users, saved, clock, calls, nSaves, lastResult>>
    /\ UNCHANGED failedLog
    /\ UNCHANGED <<normVars, searchVars, analyzerVars, ops>>

\* Results of regenerateSummaryAction: "success" is { success: true }, the
\* others are { success: false, error } with that error; "failed" is the
\* message of whatever the body threw.

\* a plausible slip: no test of the findUnique result, so the read of
\* filePath throws on a missing paper and the catch reports that
RegenerateEarlyReturnUnchecked(k) ==
    IF k \notin DOMAIN papers THEN "failed"
    ELSE IF ~Truthy(papers[k].filePath) THEN "No PDF available for this paper"
    ELSE "none"

\* the two early returns of regenerateSummaryAction (analyzer.ts 545-555);
\* "none" when the call goes on to the fetch
RegenerateEarlyReturn(k) ==
    IF k \notin DOMAIN papers THEN "Paper not found"
    ELSE IF ~Truthy(papers[k].filePath) THEN "No PDF available for this paper"
    ELSE "none"

\* regenerateSummaryAction (analyzer.ts 542-588), the whole call in one step:
\* Paper rows are never deleted, and the final update writes the AI fields
\* whatever the row read at the start held. fetchOk: axios.get resolved;
\* transportOk, text: the model's answer; mergeOk: prisma.paper.update
\* (one transaction with its nested writes) resolved. Every throw inside
\* the body ends in the catch and becomes a failure result.
RegenerateWith(k, fetchOk, transportOk, mergeOk, text) ==
    /\ IF RegenerateEarlyReturn(k) # "none"
       THEN /\ lastResult' = RegenerateEarlyReturn(k)
            /\ UNCHANGED <<papers, topics, paperTopics>>
       ELSE LET a == IF fetchOk
                     THEN analyzePdfBuffer(apiKeySet, transportOk, text)
                     ELSE Thrown
            IN IF a.kind = "value" /\ mergeOk
               THEN /\ MergesResult(k, text)
                    /\ lastResult' = "success"
               ELSE /\ lastResult' = "failed"
                    /\ UNCHANGED <<papers, topics, paperTopics>>
    /\ UNCHANGED <<apiKeySet, users, saved, clock, calls, units, nSaves>>
    /\ UNCHANGED failedLog
    /\ UNCHANGED <<normVars, searchVars, analyzerVars, ops>>

RegenerateSummary(k) ==
    \E fetchOk \in BOOLEAN, transportOk \in BOOLEAN, mergeOk \in BOOLEAN,
       text \in ModelTexts :
        RegenerateWith(k, fetchOk, transportOk, mergeOk, text)

\* the topic names a user types in the tag editor
TagNames == {"Agent"}

\* addTopicToPaperAction (analyzer.ts 631-646): the topic upsert, then the
\* connect, which rejects when the paper does not exist; the two writes are
\* separate statements, so the Topic row stays when the connect rejects
AddTopicToPaper(k, name) ==
    /\ topics' = UpsertTopic(topics, name)
    /\ IF k \in DOMAIN papers
       THEN /\ paperTopics' = paperTopics \cup {<<k, TopicByName(topics', name).id>>}
            /\ lastResult' = "ok"
       ELSE /\ paperTopics' = paperTopics
            /\ lastResult' = "raised"
    /\ UNCHANGED <<apiKeySet, users, papers, saved, clock, calls, units, nSaves>>
    /\ UNCHANGED failedLog
    /\ UNCHANGED <<normVars, searchVars, analyzerVars, ops>>

\* the topic ids the tag editor hands to removeTopicFromPaperAction: the id
\* of the Topic row made first, and an id no row has
DetachIds == {1, 9}

\* a plausible slip: the Topic row is deleted with its edges
RemoveTopicFromPaperDeletesRow(k, topicId) ==
    /\ topics' = {t \in topics : t.id # topicId}
    /\ paperTopics' = {e \in paperTopics : e[2] # topicId}
    /\ lastResult' = "ok"
    /\ UNCHANGED <<apiKeySet, users, papers, saved, clock, calls, units, nSaves>>
    /\ UNCHANGED failedLog
    /\ UNCHANGED <<normVars, searchVars, analyzerVars, ops>>

\* a plausible slip: the edge is required, as for a one-to-many relation
RemoveTopicFromPaperStrict(k, topicId) ==
    /\ IF <<k, topicId>> \in paperTopics
       THEN /\ paperTopics' = paperTopics \ {<<k, topicId>>}
            /\ lastResult' = "ok"
       ELSE /\ paperTopics' = paperTopics
            /\ lastResult' = "raised"
    /\ UNCHANGED <<apiKeySet, users, papers, saved, topics, clock, calls, units,
                   nSaves>>
    /\ UNCHANGED failedLog
    /\ UNCHANGED <<normVars, searchVars, analyzerVars, ops>>

\* removeTopicFromPaperAction (analyzer.ts 648-657): prisma.paper.update with
\* disconnect { id: topicId }. The update rejects when the Paper row is
\* missing; the disconnect of a many-to-many edge deletes the join row if
\* there is one.
RemoveTopicFromPaper(k, topicId) ==
    /\ IF k \in DOMAIN papers
       THEN /\ paperTopics' = paperTopics \ {<<k, topicId>>}
            /\ lastResult' = "ok"
       ELSE /\ paperTopics' = paperTopics
            /\ lastResult' = "raised"
    /\ UNCHANGED <<apiKeySet, users, papers, saved, topics, clock, calls, units,
                   nSaves>>
    /\ UNCHANGED failedLog
    /\ UNCHANGED <<normVars, searchVars, analyzerVars, ops>>

\* deletePaperAction is called without a session (analyzer.ts 660, 333-337)
DeleteUnauthorized(k) ==
    /\ lastResult' = "Unauthorized"
    /\ UNCHANGED <<apiKeySet, users, papers, saved, topics, paperTopics, clock,
                   calls, units, nSaves>>
    /\ UNCHANGED failedLog
    /\ UNCHANGED <<normVars, searchVars, analyzerVars, ops>>

\* getSavedPapersAction is called without a session (analyzer.ts 591,
\* 333-337): getCurrentUser throws before findMany
ListSavedUnauthorized ==
    /\ lastResult' = "Unauthorized"
    /\ UNCHANGED <<apiKeySet, users, papers, saved, topics, paperTopics, clock,
                   calls, units, nSaves>>
    /\ UNCHANGED failedLog
    /\ UNCHANGED <<normVars, searchVars, analyzerVars, ops>>

\* getPaperByIdAction is called without a session (analyzer.ts 403,
\* 333-337): getCurrentUser throws before findUnique and outside the try
GetPaperUnauthorized(k) ==
    /\ lastResult' = "Unauthorized"
    /\ UNCHANGED <<apiKeySet, users, papers, saved, topics, paperTopics, clock,
                   calls, units, nSaves>>
    /\ UNCHANGED failedLog
    /\ UNCHANGED <<normVars, searchVars, analyzerVars, ops>>

\* the SavedPaper row of user uid for paper k, if any
LinkRows(sv, uid, k) == {s \in sv : s.userId = uid /\ s.paperId = k}

\* a plausible slip: deleteMany, which succeeds when nothing matches
DeletePaperLenient(c, k) ==
    /\ calls[c].pc = "idle"
    /\ users' = UpsertUser(users, c)
    /\ saved' = saved \ LinkRows(saved, UserByEmail(users', c).id, k)
    /\ lastResult' = "ok"
    /\ UNCHANGED <<apiKeySet, papers, topics, paperTopics, clock, calls, units,
                   nSaves>>
    /\ UNCHANGED failedLog
    /\ UNCHANGED <<normVars, searchVars, analyzerVars, ops>>

\* a plausible slip: the delete is keyed by the paper alone
DeletePaperAllUsers(c, k) ==
    /\ calls[c].pc = "idle"
    /\ users' = UpsertUser(users, c)
    /\ IF LinkRows(saved, UserByEmail(users', c).id, k) # {}
       THEN /\ saved' = {s \in saved : s.paperId # k}
            /\ lastResult' = "ok"
       ELSE /\ saved' = saved
            /\ lastResult' = "NotFound"
    /\ UNCHANGED <<apiKeySet, papers, topics, paperTopics, clock, calls, units,
                   nSaves>>
    /\ UNCHANGED failedLog
    /\ UNCHANGED <<normVars, searchVars, analyzerVars, ops>>

\* a plausible slip: the Paper row goes with its last link
DeletePaperDropsOrphan(c, k) ==
    /\ calls[c].pc = "idle"
    /\ users' = UpsertUser(users, c)
    /\ IF LinkRows(saved, UserByEmail(users', c).id, k) # {}
       THEN /\ saved' = saved \ LinkRows(saved, UserByEmail(users', c).id, k)
            /\ papers' = IF \E s \in saved' : s.paperId = k
                          THEN papers
                          ELSE [j \in DOMAIN papers \ {k} |-> papers[j]]
            /\ lastResult' = "ok"
       ELSE /\ saved' = saved
            /\ papers' = papers
            /\ lastResult' = "NotFound"
    /\ UNCHANGED <<apiKeySet, topics, paperTopics, clock, calls, units,
                   nSaves>>
    /\ UNCHANGED failedLog
    /\ UNCHANGED <<normVars, searchVars, analyzerVars, ops>>

\* deletePaperAction: getCurrentUser, then prisma.savedPaper.delete on
\* userId_paperId, which rejects when no row matches (analyzer.ts 659-669).
\* Both operations touch rows of the caller alone, so they are one step.
DeletePaper(c, k) ==
    /\ calls[c].pc = "idle"
    /\ users' = UpsertUser(users, c)
    /\ IF LinkRows(saved, UserByEmail(users', c).id, k) # {}
       THEN /\ saved' = saved \ LinkRows(saved, UserByEmail(users', c).id, k)
            /\ lastResult' = "ok"
       ELSE /\ saved' = saved
            /\ lastResult' = "NotFound"
    /\ UNCHANGED <<apiKeySet, papers, topics, paperTopics, clock, calls, units,
                   nSaves>>
    /\ UNCHANGED failedLog
    /\ UNCHANGED <<normVars, searchVars, analyzerVars, ops>>

\* a Paper row read with include: { topics: true } (analyzer.ts 411-418)
PaperWithTopics(k) ==
    [ paper  |-> papers[k],
      topics |-> {t \in topics : <<k, t.id>> \in paperTopics} ]
TopicNamesOf(k) == {t.name : t \in PaperWithTopics(k).topics}

\* a plausible slip: orderBy savedAt asc, the oldest save first
RECURSIVE OrderBySavedAtAsc(_)
OrderBySavedAtAsc(sv) ==
    IF sv = {} THEN <<>>
    ELSE LET low == CHOOSE s \in sv : \A t \in sv : s.savedAt <= t.savedAt
         IN <<low>> \o OrderBySavedAtAsc(sv \ {low})

\* the rows of sv ordered by savedAt, latest first
RECURSIVE OrderBySavedAtDesc(_)
OrderBySavedAtDesc(sv) ==
    IF sv = {} THEN <<>>
    ELSE LET top == CHOOSE s \in sv : \A t \in sv : t.savedAt <= s.savedAt
         IN <<top>> \o OrderBySavedAtDesc(sv \ {top})

\* getSavedPapersAction for the user with id uid (analyzer.ts 592-612):
\* the saved papers, latest save first, each with its topics
getSavedPapers(uid) ==
    LET rows == OrderBySavedAtDesc({s \in saved : s.userId = uid})
    IN [i \in 1..Len(rows) |->
          [ paper  |-> papers[rows[i].paperId],
            topics |-> {t \in topics : <<rows[i].paperId, t.id>> \in paperTopics} ]]

\* x || ''
OrEmpty(x) == IF Truthy(x) THEN x ELSE EmptyStr

\* Date.prototype.toISOString of a date that was built from a day
ToISOString(d) == d.date \o <<"T00:00:00.000Z">>

NoPaper == [kind |-> "null"]

\* the object getPaperByIdAction builds from the caller's saved paper
\* (analyzer.ts 419-433); publishedDate is a Date in every row, both
\* branches of the paper upsert write one, so the ?. and || '' never act
SavedView(k) ==
    LET p == papers[k]
    IN [ id          |-> p.id,
         title       |-> p.title,
         authors     |-> JSONparse(p.authors),
         published   |-> ToISOString(p.publishedDate),
         link        |-> OrEmpty(p.url),
         pdfLink     |-> OrEmpty(p.filePath),
         abstract    |-> IF Truthy(p.abstract) THEN p.abstract
                         ELSE OrEmpty(p.summary),
         summary     |-> p.summary,
         institution |-> p.institution,
         topics      |-> PaperWithTopics(k).topics,
         isSaved     |-> TRUE ]

\* a plausible slip: the look-up is by paper id alone, whoever saved it
FindSavedAnyUser(uid, k) ==
    IF k \in DOMAIN papers THEN Returned(SavedView(k)) ELSE NoPaper

\* prisma.savedPaper.findUnique on userId_paperId with the paper included,
\* and the view of it (analyzer.ts 404-433)
FindSaved(uid, k) ==
    IF LinkRows(saved, uid, k) # {} THEN Returned(SavedView(k)) ELSE NoPaper

\* the object built from the first paper of the search (analyzer.ts 445-455)
RemoteView(r) ==
    [ id          |-> r.id,
      title       |-> r.title,
      authors     |-> r.authors,
      published   |-> r.published,
      link        |-> r.link,
      pdfLink     |-> r.pdfLink,
      abstract    |-> r.summary,
      summary     |-> Null,
      institution |-> Null,
      isSaved     |-> FALSE ]

\* what searchArxiv(arxivId, 1) can answer: nothing, or one paper
RemoteFinds == {<<>>, <<Rec(Bare1, 1, PdfUrl)>>}

\* getPaperByIdAction(id) called by c, found being the answer of the search
\* it falls back to (analyzer.ts 401-462). getCurrentUser writes c's User
\* row when there is none.
getPaperById(c, id, found) ==
    LET uid == UserByEmail(UpsertUser(users, c), c).id
        hit == FindSaved(uid, id)
    IN IF hit.kind = "value" THEN hit
       ELSE IF Len(found) > 0 THEN Returned(RemoteView(found[1]))
       ELSE NoPaper

----------------------------------------------------------------------------
(* Two overlapping topic writers. The update with connectOrCreate looks up *)
(* each topic name and creates the rows it did not find; another writer's  *)
(* call can run between the look-up and the write, and Topic.name is        *)
(* unique, so the insert of a name that appeared meanwhile is refused and   *)
(* the whole update is rolled back. topic.upsert is a single statement.     *)

\* the topic names the analysis of text carries
NamesOf(text) ==
    LET names == TopicsOf(AnalysisOf(text).value)
    IN {names[i] : i \in 1..Len(names)}

ExistingNames(tp) == {t.name : t \in tp}

\* a plausible slip: Topic.name without its unique index, the stale writer
\* inserts a second row for a name that appeared after its look-up
MergeWritesNoUniqueName(o) ==
    /\ ops[o].pc = "merge"
    /\ LET k == ops[o].k
           a == AnalysisOf(ops[o].text)
           st == MergeEnrichment(
                     [papers |-> papers, topics |-> topics,
                      paperTopics |-> paperTopics], k, a.value)
           late == (NamesOf(ops[o].text) \ ops[o].seen)
                       \cap ExistingNames(topics)
       IN /\ papers' = st.papers
          /\ topics' = st.topics \cup
                 {[id |-> Cardinality(st.topics) + 1, name |-> n] : n \in late}
          /\ paperTopics' = st.paperTopics
          /\ ops' = [ops EXCEPT ![o].pc = "done"]
    /\ UNCHANGED <<apiKeySet, users, saved, clock, calls, lastResult, units,
                   failedLog, nSaves>>
    /\ UNCHANGED <<normVars, searchVars, analyzerVars>>

\* prisma.paper.update of a unit or of regenerate begins (analyzer.ts
\* 521-533, 569-581): the connectOrCreate look-up of the names of the analysis
MergeLooksUp(o, k, text) ==
    /\ ops[o].pc = "idle"
    /\ k \in DOMAIN papers
    /\ Truthy(papers[k].filePath)
    /\ AnalysisOf(text).kind = "value"
    /\ ops' = [ops EXCEPT ![o] =
           [pc |-> "merge", k |-> k, text |-> text, name |-> "",
            seen |-> NamesOf(text) \cap ExistingNames(topics)]]
    /\ UNCHANGED <<apiKeySet, users, papers, saved, topics, paperTopics, clock,
                   calls, lastResult, units, failedLog, nSaves>>
    /\ UNCHANGED <<normVars, searchVars, analyzerVars>>

\* ... and its write: the columns, the missing rows and the edges in one
\* transaction, or nothing when a name it did not find exists by now
MergeWrites(o) ==
    /\ ops[o].pc = "merge"
    /\ LET k == ops[o].k
           a == AnalysisOf(ops[o].text)
           st == MergeEnrichment(
                     [papers |-> papers, topics |-> topics,
                      paperTopics |-> paperTopics], k, a.value)
           late == (NamesOf(ops[o].text) \ ops[o].seen)
                       \cap ExistingNames(topics)
       IN IF late = {}
          THEN /\ papers' = st.papers
               /\ topics' = st.topics
               /\ paperTopics' = st.paperTopics
               /\ ops' = [ops EXCEPT ![o].pc = "done"]
          ELSE /\ UNCHANGED <<papers, topics, paperTopics>>
               /\ ops' = [ops EXCEPT ![o].pc = "failed"]
    /\ UNCHANGED <<apiKeySet, users, saved, clock, calls, lastResult, units,
                   failedLog, nSaves>>
    /\ UNCHANGED <<normVars, searchVars, analyzerVars>>

\* addTopicToPaperAction, the first awaited call: prisma.topic.upsert
\* (analyzer.ts 632-636)
AttachUpserts(o, k, name) ==
    /\ ops[o].pc = "idle"
    /\ topics' = UpsertTopic(topics, name)
    /\ ops' = [ops EXCEPT ![o] =
           [pc |-> "connect", k |-> k, text |-> <<>>, name |-> name,
            seen |-> {}]]
    /\ UNCHANGED <<apiKeySet, users, papers, saved, paperTopics, clock, calls,
                   lastResult, units, failedLog, nSaves>>
    /\ UNCHANGED <<normVars, searchVars, analyzerVars>>

\* addTopicToPaperAction, the second awaited call: prisma.paper.update with
\* connect { id: topic.id }, which rejects when the paper row is missing
\* (analyzer.ts 638-645)
AttachConnects(o) ==
    /\ ops[o].pc = "connect"
    /\ LET k == ops[o].k
           id == TopicByName(topics, ops[o].name).id
       IN IF k \in DOMAIN papers
          THEN /\ paperTopics' = paperTopics \cup {<<k, id>>}
               /\ ops' = [ops EXCEPT ![o].pc = "done"]
          ELSE /\ paperTopics' = paperTopics
               /\ ops' = [ops EXCEPT ![o].pc = "failed"]
    /\ UNCHANGED <<apiKeySet, users, papers, saved, topics, clock, calls,
                   lastResult, units, failedLog, nSaves>>
    /\ UNCHANGED <<normVars, searchVars, analyzerVars>>

\* the writer's caller has its answer; the writer can start another call
OpReturns(o) ==
    /\ ops[o].pc \in {"done", "failed"}
    /\ ops' = [ops EXCEPT ![o] = IdleOp]
    /\ UNCHANGED <<apiKeySet, users, papers, saved, topics, paperTopics, clock,
                   calls, lastResult, units, failedLog, nSaves>>
    /\ UNCHANGED <<normVars, searchVars, analyzerVars>>

----------------------------------------------------------------------------
(* Specifications *)

NormIdle ==
    /\ rawId = <<>>
    /\ norm = [done |-> FALSE, bare |-> <<>>, http |-> <<>>, https |-> <<>>,
               enc |-> <<>>, page |-> <<>>, twice |-> <<>>]

CatalogIdle ==
    /\ apiKeySet = TRUE
    /\ users = {}
    /\ papers = <<>>
    /\ saved = {}
    /\ topics = {}
    /\ paperTopics = {}
    /\ clock = 0
    /\ calls = [c \in Emails |-> IdleCall]
    /\ lastResult = "none"
    /\ units = [u \in AllUnits |-> 0]
    /\ failedLog = {}
    /\ nSaves = 0
    /\ ops = [o \in OpIds |-> IdleOp]

\* identifier normalisation
InitNormSpec == InitNorm /\ InitSearch /\ AnalyzerIdle /\ CatalogIdle
NextNorm == NormalizeForms
SpecNorm == InitNormSpec /\ [][NextNorm]_vars

\* one search call
InitSearchSpec == NormIdle /\ InitSearch /\ AnalyzerIdle /\ CatalogIdle
NextSearch ==
    \/ SearchStart
    \/ FetchOk
    \/ FetchRateLimited
    \/ FetchOtherError
    \/ ParseResponse
SpecSearch == InitSearchSpec /\ [][NextSearch]_vars

\* one analyzePdfBuffer call, with and without the API key
InitAnalyzeSpec == NormIdle /\ InitSearch /\ InitAnalyze /\ InitCatalog
NextAnalyze == Analyze
SpecAnalyze == InitAnalyzeSpec /\ [][NextAnalyze]_vars

\* the catalog under the server actions and the detached enrichment units
Init == NormIdle /\ InitSearch /\ AnalyzerIdle /\ InitCatalog
Next ==
    \/ \E r \in Records : SaveUnauthorized(r)
    \/ \E c \in Emails, r \in Records : SavePaperUpsert(c, r)
    \/ \E c \in Emails : SaveLinkAndReturn(c)
    \/ \E u \in AllUnits : EnrichmentFails(u)
    \/ \E u \in AllUnits : EnrichmentMerges(u)
    \/ \E k \in PaperKeys : DeleteUnauthorized(k)
    \/ \E c \in Emails, k \in PaperKeys : DeletePaper(c, k)
Spec == Init /\ [][Next]_vars

\* the catalog as one signed-in user's saves, the enrichment units, the
\* manual regenerate and the tag editor write it. deletePaperAction and the
\* second user are left to Spec: they write User and SavedPaper rows, which
\* no action below reads beyond the caller's own.
Curator == "ann@example.org"
NextCuration ==
    \/ \E r \in Records : SavePaperUpsert(Curator, r)
    \/ SaveLinkAndReturn(Curator)
    \/ \E u \in AllUnits : EnrichmentFails(u)
    \/ \E u \in AllUnits : EnrichmentMerges(u)
    \/ \E k \in PaperKeys : RegenerateSummary(k)
    \/ \E k \in PaperKeys, name \in TagNames : AddTopicToPaper(k, name)
    \/ \E k \in PaperKeys, topicId \in DetachIds :
           RemoveTopicFromPaper(k, topicId)
SpecCuration == Init /\ [][NextCuration]_vars

\* every operation that writes the catalog, by one signed-in user: those of
\* SpecCuration and deletePaperAction. A regenerate whose fetch, analysis or
\* update throws ends in the same state whichever of them threw; the failed
\* fetch stands for the three. The saves are of one record per paper id, one
\* with a PDF link and one without. A unit that ends in its catch writes
\* the log alone; it is left to the other specifications, and here a unit
\* stays pending until it merges.
LibraryRecords == {Rec(Bare1, 1, PdfUrl), Rec(UrlId1, 1, Undefined)}
NextLibrary ==
    \/ \E r \in LibraryRecords : SavePaperUpsert(Curator, r)
    \/ SaveLinkAndReturn(Curator)
    \/ \E u \in AllUnits : EnrichmentMerges(u)
    \/ \E k \in PaperKeys, text \in ModelTexts :
           RegenerateWith(k, TRUE, TRUE, TRUE, text)
    \/ \E k \in PaperKeys : RegenerateWith(k, FALSE, TRUE, TRUE, EmptyStr)
    \/ \E k \in PaperKeys, name \in TagNames : AddTopicToPaper(k, name)
    \/ \E k \in PaperKeys, topicId \in DetachIds :
           RemoveTopicFromPaper(k, topicId)
    \/ \E k \in PaperKeys : DeletePaper(Curator, k)
SpecLibrary == Init /\ [][NextLibrary]_vars

\* the four actions that need a session, called without one, next to the
\* saves and deletes of one signed-in user and the enrichment units of the
\* saves
NextSession ==
    \/ \E r \in Records : SavePaperUpsert(Curator, r)
    \/ SaveLinkAndReturn(Curator)
    \/ \E u \in AllUnits : EnrichmentFails(u)
    \/ \E u \in AllUnits : EnrichmentMerges(u)
    \/ \E k \in PaperKeys : DeletePaper(Curator, k)
    \/ \E r \in Records : SaveUnauthorized(r)
    \/ \E k \in PaperKeys : DeleteUnauthorized(k)
    \/ ListSavedUnauthorized
    \/ \E k \in PaperKeys : GetPaperUnauthorized(k)
SpecSession == Init /\ [][NextSession]_vars

\* the curator's saves and two writers of topics whose database calls
\* interleave
NextAttach ==
    \/ \E r \in Records : SavePaperUpsert(Curator, r)
    \/ SaveLinkAndReturn(Curator)
    \/ \E o \in OpIds, k \in PaperKeys, text \in ModelTexts :
           MergeLooksUp(o, k, text)
    \/ \E o \in OpIds : MergeWrites(o)
    \/ \E o \in OpIds, k \in PaperKeys, name \in TagNames :
           AttachUpserts(o, k, name)
    \/ \E o \in OpIds : AttachConnects(o)
    \/ \E o \in OpIds : OpReturns(o)
SpecAttach == Init /\ [][NextAttach]_vars

----------------------------------------------------------------------------
(* Properties of the search client (SpecSearch) *)

Range(f) == {f[i] : i \in DOMAIN f}

AllRateLimited == responses # <<>> /\ Range(responses) = {"429"}

\* C1: when every attempt of a search call is answered 429, the call goes on
\* until it has made 4 attempts (1 initial and 3 retries) and then gives up,
\* returning the empty list.
C1_RetryCeiling ==
    AllRateLimited =>
        IF attempts < 4
        THEN spc = "fetching"
        ELSE attempts = 4 /\ Len(waits) = 3 /\ spc = "returned" /\ sresult = <<>>

C1_Witness == AllRateLimited /\ spc = "returned" /\ attempts = 4

\* C2 as stated: at most 3 requests are issued by one search call.
C2_AtMostThreeAttempts == attempts <= 3

\* C2 amended: at most 4 requests are issued by one search call, and the
\* fourth is issued only after three rate-limit responses.
C2_AtMostFourAttempts ==
    /\ attempts <= 4
    /\ attempts = 4 => SubSeq(responses, 1, 3) = <<"429", "429", "429">>

C2_Witness == attempts = 4 /\ responses[4] = "ok" /\ spc = "returned"

\* the request and the parse of the current call both succeeded
SearchSucceeded ==
    /\ responses # <<>>
    /\ responses[Len(responses)] = "ok"
    /\ feed.kind = "feed"
    /\ \A i \in 1..Len(feed.entry) : feed.entry[i].wellFormed

\* C3: searchArxiv never raises; it returns the empty list whenever the
\* request or the parse failed, and the entries of the feed, one record per
\* entry in feed order, when both succeeded.
C3_SearchNeverRaises ==
    /\ spc # "raised"
    /\ spc = "returned" =>
          IF SearchSucceeded
          THEN /\ Len(sresult) = Len(feed.entry)
               /\ \A i \in 1..Len(sresult) : sresult[i].link = feed.entry[i].id
          ELSE sresult = <<>>

C3_Witness ==
    /\ spc = "returned"
    /\ "429" \in Range(responses)
    /\ Len(sresult) = 2

----------------------------------------------------------------------------
(* Properties of identifier normalisation (SpecNorm) *)

\* C4: for a bare id, getCleanId of the http URL, of the https URL and of the
\* bare id itself all equal the bare id.
C4_FormsNormalizeToBareId ==
    (norm.done /\ IsBareId(rawId)) =>
        /\ norm.bare = rawId
        /\ norm.http = rawId
        /\ norm.https = rawId

C4_Witness ==
    /\ norm.done
    /\ rawId = <<"2106.09685", "v2">>
    /\ norm.https = <<"2106.09685", "v2">>

----------------------------------------------------------------------------
(* Properties of the catalog (Spec) *)

\* the external id an identifier denotes, whatever its form
ExternalIdOf(id) ==
    IF StartsWith(id, HttpAbsPrefix) THEN ReplacePrefix(id, HttpAbsPrefix)
    ELSE IF StartsWith(id, HttpsAbsPrefix) THEN ReplacePrefix(id, HttpsAbsPrefix)
    ELSE IF StartsWith(id, EncHttpAbsPrefix) THEN ReplacePrefix(id, EncHttpAbsPrefix)
    ELSE IF StartsWith(id, EncHttpsAbsPrefix) THEN ReplacePrefix(id, EncHttpsAbsPrefix)
    ELSE id

\* C5 as stated: the catalog holds at most one Paper row per external paper
\* id, whatever forms of the id were saved.
C5_OneRowPerExternalId ==
    \A p \in DOMAIN papers, q \in DOMAIN papers :
        ExternalIdOf(p) = ExternalIdOf(q) => p = q

\* C6: once savePaperAction has upserted a record, upserting the same record
\* again leaves every Paper row as it is (one row for the id, the same
\* bibliographic and AI fields), and the upsert never touches a topic edge.
C6_UpsertIdempotent ==
    [][\A c \in Emails, r \in Records :
          (/\ calls[c].pc = "idle"
           /\ calls'[c].pc = "link"
           /\ SavePaperUpsert(c, r)) =>
              /\ r.id \in DOMAIN papers'
              /\ UpsertPaper(papers', r) = papers'
              /\ paperTopics' = paperTopics
              /\ topics' = topics]_vars

C6_Witness ==
    \E r \in Records :
        /\ \A c \in Emails : calls[c].pc = "link" /\ calls[c].rec = r
        /\ papers[r.id].title = r.title
        /\ papers[r.id].filePath = r.pdfLink

\* C7: no step of savePaperAction (the paper upsert, the link upsert)
\* changes the summary or the institution of a Paper row that exists.
C7_SaveKeepsAiFields ==
    [][\A c \in Emails :
          (/\ calls'[c] # calls[c]
           /\ (\E r \in Records : SavePaperUpsert(c, r)) \/ SaveLinkAndReturn(c)) =>
              \A k \in DOMAIN papers :
                  /\ k \in DOMAIN papers'
                  /\ papers'[k].summary = papers[k].summary
                  /\ papers'[k].institution = papers[k].institution]_vars

C7_Witness ==
    \E c \in Emails :
        /\ calls[c].pc = "link"
        /\ calls[c].rec = Rec(Bare1, 2, EmptyStr)
        /\ papers[Bare1].title = Rec(Bare1, 2, EmptyStr).title
        /\ papers[Bare1].summary = <<"S">>
        /\ papers[Bare1].institution = <<"I">>

\* at most one SavedPaper row per (user, paper)
SavedPairsUnique ==
    \A s \in saved, t \in saved :
        (s.userId = t.userId /\ s.paperId = t.paperId) => s = t

\* C8: there is at most one SavedPaper row per (user, paper); saving a pair
\* that is already saved succeeds and leaves the SavedPaper rows, the save
\* timestamp included, as they are.
C8_SaveOncePerPair ==
    /\ []SavedPairsUnique
    /\ [][\A c \in Emails :
            (SaveLinkAndReturn(c) /\ LinkRows(saved, calls[c].uid, calls[c].id) # {})
                => (saved' = saved /\ lastResult' = "ok")]_vars

C8_Witness ==
    /\ nSaves = 2
    /\ \A c \in Emails : calls[c].pc = "idle"
    /\ Cardinality(users) = 1
    /\ DOMAIN papers = {Bare1}
    /\ clock = 1
    /\ Cardinality(saved) = 1
    /\ lastResult = "ok"

\* the id of the User row of a signed-in caller, after getCurrentUser
UidAfter(c) == UserByEmail(users', c).id

\* C9: deletePaperAction removes nothing but the caller's SavedPaper row for
\* that paper: Paper rows, Topic rows, topic edges and every other
\* SavedPaper row stay, and every other user's saved list is unchanged.
C9_DeleteRemovesOnlyOwnLink ==
    [][\A c \in Emails, k \in PaperKeys :
          DeletePaper(c, k) =>
              /\ papers' = papers
              /\ topics' = topics
              /\ paperTopics' = paperTopics
              /\ saved' = saved \ LinkRows(saved, UidAfter(c), k)
              /\ \A u \in users :
                    u.email # c =>
                        \/ /\ {s \in saved' : s.userId = u.id} =
                                  {s \in saved : s.userId = u.id}
                           /\ UNCHANGED <<papers, topics, paperTopics>>
                        \/ getSavedPapers(u.id)' = getSavedPapers(u.id)]_vars

C9_Witness ==
    /\ clock = 2
    /\ DOMAIN papers = {Bare1}
    /\ Cardinality(saved) = 1
    /\ \E s \in saved : s.savedAt = 1 /\ Len(getSavedPapers(s.userId)) = 1
    /\ paperTopics # {}
    /\ lastResult = "ok"
    /\ \A c \in Emails : calls[c].pc = "idle"

\* C10: deletePaperAction for a pair that has no SavedPaper row fails with
\* not-found and leaves the Paper, SavedPaper and Topic rows and the topic
\* edges unchanged; a delete that succeeds leaves no row for the pair, so a
\* second delete is such a call.
C10_DeleteMissingLinkFails ==
    [][\A c \in Emails, k \in PaperKeys :
          (/\ calls[c].pc = "idle"
           /\ calls' = calls
           /\ lastResult' \in {"ok", "NotFound"}
           /\ DeletePaper(c, k)) =>
              IF LinkRows(saved, UidAfter(c), k) = {}
              THEN /\ lastResult' = "NotFound"
                   /\ papers' = papers
                   /\ saved' = saved
                   /\ topics' = topics
                   /\ paperTopics' = paperTopics
              ELSE /\ lastResult' = "ok"
                   /\ LinkRows(saved', UidAfter(c), k) = {}]_vars

C10_Witness ==
    /\ lastResult = "NotFound"
    /\ clock = 1
    /\ saved = {}
    /\ DOMAIN papers # {}

----------------------------------------------------------------------------
(* Properties of save-time enrichment (Spec, SpecCuration) *)

\* C11 as stated: when savePaperAction returns for a paper that was not in
\* the catalog when it was called, the Paper row and the caller's SavedPaper
\* row exist and the Paper's summary and institution are null.
C11_NewPaperUnenrichedAtReturn ==
    [][\A c \in Emails :
          (SaveLinkAndReturn(c) /\ calls[c].created) =>
              /\ calls[c].id \in DOMAIN papers'
              /\ LinkRows(saved', calls[c].uid, calls[c].id) # {}
              /\ papers'[calls[c].id].summary = Null
              /\ papers'[calls[c].id].institution = Null]_vars

\* C11 amended: a save that creates the Paper row creates it with null
\* summary and institution; when that save returns, the row and the
\* caller's SavedPaper row exist, the return has written no Paper row, and
\* the unit it started (if the record has a PDF link) is still pending.
\* The summary and institution are null at the return when no other save
\* was called meanwhile; the unit started by a concurrent save of the same
\* paper may have filled them before.
C11_NewPaperAtReturn ==
    /\ [][\A c \in Emails, r \in Records :
            (SavePaperUpsert(c, r) /\ r.id \notin DOMAIN papers) =>
                /\ papers'[r.id].summary = Null
                /\ papers'[r.id].institution = Null]_vars
    /\ [][\A c \in Emails :
            (SaveLinkAndReturn(c) /\ calls[c].created) =>
                /\ calls[c].id \in DOMAIN papers'
                /\ LinkRows(saved', calls[c].uid, calls[c].id) # {}
                /\ papers' = papers
                /\ Truthy(calls[c].rec.pdfLink) => units'[UnitOf(calls[c].rec)] > 0
                /\ nSaves = 1 =>
                      /\ papers'[calls[c].id].summary = Null
                      /\ papers'[calls[c].id].institution = Null]_vars

\* save has returned for a new paper and its enrichment unit is pending
C11_Witness ==
    /\ nSaves = 1
    /\ lastResult = "ok"
    /\ \A c \in Emails : calls[c].pc = "idle"
    /\ units[UnitOf(Rec(Bare1, 1, PdfUrl))] = 1
    /\ Cardinality(saved) = 1
    /\ papers[Bare1].summary = Null
    /\ papers[Bare1].institution = Null

\* the model's answer is an analysis with three distinct topics
ThreeDistinctTopics(text) ==
    /\ AnalysisOf(text).kind = "value"
    /\ Len(AnalysisOf(text).value.topics) = 3
    /\ Cardinality(Range(AnalysisOf(text).value.topics)) = 3

C13_UnitFailureIsContained ==
    /\ [][\A u \in AllUnits :
            EnrichmentFails(u) =>
                /\ lastResult' = lastResult
                /\ papers' = papers
                /\ saved' = saved
                /\ topics' = topics
                /\ paperTopics' = paperTopics
                /\ \A k \in DOMAIN papers :
                      PaperWithTopics(k)' = PaperWithTopics(k)]_vars
    /\ [][\A c \in Emails :
            SaveLinkAndReturn(c) =>
                /\ lastResult' = "ok"
                /\ LinkRows(saved', calls[c].uid, calls[c].id) # {}]_vars

\* without the API key the unit of the only save has failed: the save
\* succeeded and the paper is as the save left it
C13_Witness ==
    /\ ~apiKeySet
    /\ nSaves = 1
    /\ lastResult = "ok"
    /\ \A c \in Emails : calls[c].pc = "idle"
    /\ \A u \in AllUnits : units[u] = 0
    /\ Bare1 \in DOMAIN papers
    /\ papers[Bare1].filePath = PdfUrl
    /\ papers[Bare1].summary = Null
    /\ TopicNamesOf(Bare1) = {}
    /\ Cardinality(saved) = 1

SaveStarts(u) ==
    \E c \in Emails :
        /\ SaveLinkAndReturn(c)
        /\ Truthy(calls[c].rec.pdfLink)
        /\ UnitOf(calls[c].rec) = u

----------------------------------------------------------------------------
(* Properties of regenerateSummaryAction (SpecCuration) *)

\* C15: regenerateSummaryAction on a Paper row whose PDF link is null or
\* empty returns the failure "No PDF available for this paper" whatever the
\* fetch or the analyzer would have done, and leaves every Paper row (its
\* summary and institution), the Topic rows, the topic edges and the
\* pending units unchanged.
C15_RegenerateWithoutPdf ==
    [][\A k \in PaperKeys :
          ( /\ k \in DOMAIN papers
            /\ papers[k].filePath \in {Null, EmptyStr}
            /\ RegenerateSummary(k) ) =>
              /\ lastResult' = "No PDF available for this paper"
              /\ papers' = papers
              /\ topics' = topics
              /\ paperTopics' = paperTopics
              /\ units' = units
              /\ failedLog' = failedLog]_vars

\* an enriched paper lost its PDF link to a later save, then regenerate
C15_Witness ==
    /\ lastResult = "No PDF available for this paper"
    /\ Bare1 \in DOMAIN papers
    /\ papers[Bare1].filePath = EmptyStr
    /\ papers[Bare1].summary = <<"S">>
    /\ UrlId1 \notin DOMAIN papers

\* C16: regenerateSummaryAction on an id that has no Paper row returns the
\* failure "Paper not found" and creates nothing: the Paper, Topic,
\* SavedPaper and User rows and the topic edges stay as they were.
C16_RegenerateMissingPaper ==
    [][\A k \in PaperKeys :
          (k \notin DOMAIN papers /\ RegenerateSummary(k)) =>
              /\ lastResult' = "Paper not found"
              /\ papers' = papers
              /\ topics' = topics
              /\ paperTopics' = paperTopics
              /\ saved' = saved
              /\ users' = users]_vars

C16_Witness ==
    /\ lastResult = "Paper not found"
    /\ DOMAIN papers = {Bare1}
    /\ papers[Bare1].filePath = PdfUrl
    /\ topics # {}
    /\ saved # {}

RegenerateResults ==
    {"success", "failed", "Paper not found", "No PDF available for this paper"}

\* a value of an analysis as a nullable column holds it: none is null
AsColumn(v) == IF v = Undefined THEN Null ELSE v

\* C17 as stated: regenerateSummaryAction always returns a result, never
\* raises. It returns success exactly when it passed both early returns and
\* the fetch, analyzePdfBuffer and the update all succeeded, and then the
\* Paper's summary and institution are the analysis'; otherwise it returns
\* a failure and every Paper row, the Topic rows and the topic edges are
\* unchanged.
C17_RegenerateReportsOutcome ==
    [][\A k \in PaperKeys, fetchOk \in BOOLEAN, transportOk \in BOOLEAN,
         mergeOk \in BOOLEAN, text \in ModelTexts :
          RegenerateWith(k, fetchOk, transportOk, mergeOk, text) =>
              /\ lastResult' \in RegenerateResults
              /\ lastResult' = "success" <=>
                    /\ k \in DOMAIN papers
                    /\ Truthy(papers[k].filePath)
                    /\ fetchOk
                    /\ analyzePdfBuffer(apiKeySet, transportOk, text).kind = "value"
                    /\ mergeOk
              /\ lastResult' = "success" =>
                    /\ papers'[k].summary = AsColumn(AnalysisOf(text).value.summary)
                    /\ papers'[k].institution =
                           AsColumn(AnalysisOf(text).value.institution)
              /\ lastResult' # "success" =>
                    /\ papers' = papers
                    /\ topics' = topics
                    /\ paperTopics' = paperTopics]_vars

----------------------------------------------------------------------------
(* Properties of analyzePdfBuffer (SpecAnalyze) *)

\* the model answered, and its answer with the code fences deleted and
\* trimmed is not the text of a JSON value
AnsweredNonJson ==
    /\ analysis.done
    /\ apiKeySet
    /\ analysis.transportOk
    /\ ~ParsesAsJson(CleanJsonString(modelText))

\* C18: when the model's answer, code fences deleted, does not parse as
\* JSON, analyzePdfBuffer does not raise: it returns the raw answer (fences
\* and white space included) as the summary, with the empty institution
\* and no topics.
C18_FallbackOnNonJson ==
    AnsweredNonJson =>
        /\ analysis.out.kind = "value"
        /\ analysis.out.value.summary = modelText
        /\ analysis.out.value.institution = EmptyStr
        /\ analysis.out.value.topics = <<>>

\* a fenced answer that is not JSON came back whole
C18_Witness ==
    /\ AnsweredNonJson
    /\ modelText = <<"<fence>json", "\n", "Sorry", " ", "no", " ", "summary",
                     "\n", "<fence>">>
    /\ analysis.out.value.summary = modelText

\* the model answered, and its answer with the code fences deleted and
\* trimmed is the text of a JSON value
AnsweredJson ==
    /\ analysis.done
    /\ apiKeySet
    /\ analysis.transportOk
    /\ ParsesAsJson(CleanJsonString(modelText))

\* C19 as stated: a result analyzePdfBuffer obtained from a JSON-parsable
\* answer has a summary, an institution and exactly three topics, each one
\* of the nine allowed labels.
C19_AnalysisKeepsToPrompt ==
    AnsweredJson =>
        /\ analysis.out.kind = "value"
        /\ analysis.out.value.summary # Undefined
        /\ analysis.out.value.institution # Undefined
        /\ Len(TopicsOf(analysis.out.value)) = 3
        /\ Range(TopicsOf(analysis.out.value)) \subseteq AllowedTopics

----------------------------------------------------------------------------
(* Properties of the topics (SpecCuration) *)

\* C20: no two Topic rows have the same name, whatever order the tag editor
\* and the enrichments attach names in; every topic edge joins a Paper row
\* to a Topic row, so a name attached to two papers is one Topic row that
\* both papers reference.
C20_OneTopicRowPerName ==
    /\ \A s \in topics, t \in topics : s.name = t.name => s = t
    /\ \A s \in topics, t \in topics : s.id = t.id => s = t
    /\ \A e \in paperTopics :
          /\ e[1] \in DOMAIN papers
          /\ \E t \in topics : t.id = e[2]
    /\ \A k \in DOMAIN papers :
          Cardinality(TopicNamesOf(k)) = Cardinality(PaperWithTopics(k).topics)

\* "Agent" is attached to one paper by an enrichment and to the other by
\* the tag editor
C20_Witness ==
    /\ DOMAIN papers = {Bare1, UrlId1}
    /\ lastResult = "ok"
    /\ "Agent" \in TopicNamesOf(Bare1)
    /\ Cardinality(TopicNamesOf(Bare1)) = 3
    /\ TopicNamesOf(UrlId1) = {"Agent"}
    /\ Cardinality({t \in topics : t.name = "Agent"}) = 1
    /\ \E t \in topics : {<<Bare1, t.id>>, <<UrlId1, t.id>>} \subseteq paperTopics


----------------------------------------------------------------------------
(* Properties of two overlapping topic writers (SpecAttach) *)

\* the topic names a writer's call attaches to its paper
OpNames(op) == IF op.text # <<>> THEN NamesOf(op.text)
               ELSE IF op.name # "" THEN {op.name} ELSE {}

\* the call has finished on a paper that was there: it went through, or it
\* is a merge that was refused the insert of a topic name
OpFinished(op) == op.pc = "done" \/ (op.pc = "failed" /\ op.text # <<>>)

\* C21: when two calls that attach the same topic name to the same paper
\* (two merges, or a merge and addTopicToPaperAction) have both finished,
\* however their database steps interleaved, there is exactly one Topic row
\* of that name and the paper has the edge to it; a Topic name never has
\* two rows. A merge that lost the race for the insert is rolled back, and
\* the edge is then the other writer's.
C21_ConcurrentAttachKeepsOneEdge ==
    /\ \A n \in ExistingNames(topics) :
           Cardinality({t \in topics : t.name = n}) = 1
    /\ \A n \in OpNames(ops[1]) \cap OpNames(ops[2]) :
           (/\ OpFinished(ops[1])
            /\ OpFinished(ops[2])
            /\ ops[1].k = ops[2].k
            /\ ops[1].k \in DOMAIN papers)
           => /\ n \in ExistingNames(topics)
              /\ <<ops[1].k, TopicByName(topics, n).id>> \in paperTopics

\* both writers found the name missing, one has written and the other was
\* refused
C21_Witness ==
    \E o \in OpIds, q \in OpIds :
        /\ ops[o].pc = "failed"
        /\ ops[o].text # <<>>
        /\ ops[q].pc = "done"
        /\ ops[q].k = ops[o].k
        /\ OpNames(ops[o]) \cap OpNames(ops[q]) # {}
        /\ ops[o].seen = {}

----------------------------------------------------------------------------
(* Properties of overlapping saves and enrichments (Spec) *)

\* the row holds the bibliographic fields of the record r
HoldsRecord(row, r) ==
    /\ row.title = r.title
    /\ row.authors = JSONstringify(r.authors)
    /\ row.abstract = r.summary
    /\ row.url = r.link
    /\ row.publishedDate = NewDate(r.published)
    /\ r.pdfLink # Undefined => row.filePath = r.pdfLink

\* summary and institution of the row are those of the analysis of one text
TakenFromOneResult(row) ==
    \E text \in ModelTexts :
        /\ AnalysisOf(text).kind = "value"
        /\ row.summary = AsColumn(AnalysisOf(text).value.summary)
        /\ row.institution = AsColumn(AnalysisOf(text).value.institution)

\* C22 as stated: when users save the same paper id and the detached
\* enrichments overlap, in every interleaving each user has at most one
\* SavedPaper row for the paper, the Paper row holds the bibliographic fields
\* of the upsert made last, and after a merge summary and institution are
\* both those of the one result merged last, never a mix of two results.
C22_SavesAndMergesOverlap ==
    /\ [](\A uid \in {x.id : x \in users}, k \in DOMAIN papers :
             Cardinality(LinkRows(saved, uid, k)) <= 1)
    /\ [][\A c \in Emails, r \in Records :
             SavePaperUpsert(c, r) => HoldsRecord(papers'[r.id], r)]_vars
    /\ [][\A u \in AllUnits :
             EnrichmentMerges(u) => TakenFromOneResult(papers'[u.paperId])]_vars

----------------------------------------------------------------------------
(* Properties of the two writers of a Paper row (SpecCuration) *)

Bibliographic(row) ==
    <<row.title, row.authors, row.abstract, row.url, row.publishedDate,
      row.filePath>>

Enrichment(row) == <<row.summary, row.institution>>

EdgesOf(pt, k) == {e \in pt : e[1] = k}

\* C23: the paper upsert of savePaperAction on a Paper that exists leaves
\* its summary, its institution and every topic edge as they were, and the
\* merge of an enrichment unit or of regenerateSummaryAction leaves the
\* bibliographic fields (title, authors, abstract, link, PDF link, published
\* date) of every Paper as they were; no step writes both groups of a row.
C23_UpdateSourcesNotMixed ==
    [][/\ \A r \in Records :
            \/ r.id \notin DOMAIN papers
            \/ /\ Enrichment(papers'[r.id]) = Enrichment(papers[r.id])
               /\ paperTopics' = paperTopics
               /\ topics' = topics
               /\ \A k \in DOMAIN papers \ {r.id} : papers'[k] = papers[k]
            \/ ~SavePaperUpsert(Curator, r)
       /\ \A k \in DOMAIN papers :
            \/ /\ Bibliographic(papers'[k]) = Bibliographic(papers[k])
               /\ \A j \in DOMAIN papers \ {k} : papers'[j] = papers[j]
               /\ \A j \in DOMAIN papers \ {k} :
                      EdgesOf(paperTopics', j) = EdgesOf(paperTopics, j)
            \/ ~(\/ \E u \in AllUnits : u.paperId = k /\ EnrichmentMerges(u)
                 \/ RegenerateSummary(k) /\ lastResult' = "success")
       /\ \A k \in DOMAIN papers :
            \/ Bibliographic(papers'[k]) = Bibliographic(papers[k])
            \/ /\ Enrichment(papers'[k]) = Enrichment(papers[k])
               /\ EdgesOf(paperTopics', k) = EdgesOf(paperTopics, k)
      ]_vars

\* an enriched Paper was saved again with another version of its record:
\* the row holds the new title next to the merged summary and topic edges
C23_Witness ==
    /\ Bare1 \in DOMAIN papers
    /\ papers[Bare1].title = Rec(Bare1, 2, EmptyStr).title
    /\ papers[Bare1].summary # Null
    /\ EdgesOf(paperTopics, Bare1) # {}

----------------------------------------------------------------------------
(* Properties of the reads (Spec) *)

\* the paper ids getSavedPapersAction returns to the user uid, in order
SavedIds(uid) ==
    [i \in 1..Len(getSavedPapers(uid)) |-> getSavedPapers(uid)[i].paper.id]

SavedAtOf(uid, k) == (CHOOSE s \in saved : s.userId = uid /\ s.paperId = k).savedAt

\* C24: getSavedPapersAction returns to a user exactly the papers that user
\* has a SavedPaper row for now, each once (none that only others saved,
\* none the user deleted), the later saved before the earlier; the paper of
\* a save that has just created the user's row is the first entry, and a
\* save of a paper the user already has writes no row, so it moves nothing.
C24_ListSavedIsTheUsersLinks ==
    /\ [](\A u \in users :
            LET ids == SavedIds(u.id)
                mine == {s.paperId : s \in {t \in saved : t.userId = u.id}}
            IN /\ {ids[i] : i \in DOMAIN ids} = mine
               /\ Len(ids) = Cardinality(mine)
               /\ \A i \in DOMAIN ids, j \in DOMAIN ids :
                      i < j => SavedAtOf(u.id, ids[i]) > SavedAtOf(u.id, ids[j]))
    /\ [][/\ \A s \in saved' \ saved :
                 /\ LinkRows(saved, s.userId, s.paperId) = {}
                 /\ SavedIds(s.userId)'[1] = s.paperId
          /\ \A s \in saved \ saved' :
                 \A i \in DOMAIN SavedIds(s.userId)' :
                     SavedIds(s.userId)'[i] # s.paperId]_vars

\* one user has saved both papers and another user one of them
C24_Witness ==
    \E u \in users, v \in users :
        /\ u # v
        /\ Len(SavedIds(u.id)) = 2
        /\ Len(SavedIds(v.id)) = 1
        /\ SavedAtOf(v.id, SavedIds(v.id)[1]) > SavedAtOf(u.id, SavedIds(u.id)[2])
        /\ SavedAtOf(v.id, SavedIds(v.id)[1]) < SavedAtOf(u.id, SavedIds(u.id)[1])

\* the caller c has a SavedPaper row for the paper k
HasLink(c, k) ==
    /\ \E u \in users : u.email = c
    /\ LinkRows(saved, UserByEmail(users, c).id, k) # {}

\* C25 as stated: getPaperByIdAction returns the saved view of the paper
\* when the caller has a SavedPaper row for it, and returns null when the
\* caller has none, whatever the remote search answers.
C25_NullWithoutLink ==
    \A c \in Emails, k \in PaperKeys, found \in RemoteFinds :
        IF HasLink(c, k)
        THEN getPaperById(c, k, found) = Returned(SavedView(k))
        ELSE getPaperById(c, k, found).kind = "null"

\* C25, amended: the look-up of the caller's saved paper gives the saved
\* view (the row's summary, institution and topics, isSaved true) when the
\* caller has a SavedPaper row for the paper and nothing when the caller has
\* none, also when another user's save made the Paper row. Without a row the
\* action goes on to the remote search: it returns the first paper found as
\* an unsaved view with null summary and institution, never the catalog's
\* enrichment, and null only when the search finds nothing.
C25_SavedViewOnlyWithLink ==
    \A c \in Emails, k \in PaperKeys :
        LET uid == UserByEmail(UpsertUser(users, c), c).id
        IN IF HasLink(c, k)
           THEN /\ FindSaved(uid, k).kind = "value"
                /\ FindSaved(uid, k).value.summary = papers[k].summary
                /\ FindSaved(uid, k).value.institution = papers[k].institution
                /\ FindSaved(uid, k).value.topics = PaperWithTopics(k).topics
                /\ FindSaved(uid, k).value.isSaved
                /\ \A found \in RemoteFinds :
                       getPaperById(c, k, found) = FindSaved(uid, k)
           ELSE /\ FindSaved(uid, k).kind = "null"
                /\ getPaperById(c, k, <<>>).kind = "null"
                /\ \A found \in RemoteFinds \ {<<>>} :
                       /\ getPaperById(c, k, found).kind = "value"
                       /\ ~getPaperById(c, k, found).value.isSaved
                       /\ getPaperById(c, k, found).value.summary = Null
                       /\ getPaperById(c, k, found).value.institution = Null

\* a Paper is enriched and one user has saved it, the other has not
C25_Witness ==
    \E c \in Emails, d \in Emails :
        /\ HasLink(c, Bare1)
        /\ ~HasLink(d, Bare1)
        /\ papers[Bare1].summary # Null
        /\ getPaperById(c, Bare1, <<>>).value.summary = papers[Bare1].summary
        /\ getPaperById(d, Bare1, <<>>).kind = "null"

----------------------------------------------------------------------------
(* Properties of the rows under every writer (SpecLibrary) *)

\* C26: no step of save, deletePaperAction, an enrichment unit,
\* regenerateSummaryAction, addTopicToPaperAction or
\* removeTopicFromPaperAction removes a Paper row or a Topic row: rows
\* present before the step are present, with the same id and name, after
\* it. removeTopicFromPaperAction takes away at most the one edge and
\* deletePaperAction at most the caller's one SavedPaper row.
C26_RowsNeverShrink ==
    [][/\ DOMAIN papers \subseteq DOMAIN papers'
       /\ topics \subseteq topics'
       /\ \A k \in PaperKeys, topicId \in DetachIds :
            \/ paperTopics \ paperTopics' \subseteq {<<k, topicId>>}
                  /\ saved' = saved
            \/ ~RemoveTopicFromPaper(k, topicId)
       /\ \A k \in PaperKeys :
            \/ saved \ saved' \subseteq
                      LinkRows(saved, UserByEmail(users', Curator).id, k)
                  /\ paperTopics' = paperTopics
            \/ ~DeletePaper(Curator, k)]_vars

\* an edge was detached and a link was deleted, the rows are all there
C26_Witness ==
    /\ DOMAIN papers # {}
    /\ saved = {}
    /\ clock > 0
    /\ \E t \in topics : t.id = 1
    /\ paperTopics # {}
    /\ \A e \in paperTopics : e[2] # 1

----------------------------------------------------------------------------
(* Properties of the tag editor (SpecCuration) *)

Attached(k, name) ==
    \E t \in topics : t.name = name /\ <<k, t.id>> \in paperTopics

\* C27: addTopicToPaperAction with a topic name the paper already has an
\* edge to returns normally and leaves the Paper rows, the Topic rows and
\* the edges as they were; removeTopicFromPaperAction with a topic id the
\* paper has no edge to (a Topic of another paper, a Topic of no paper, an
\* id without a row) returns normally and leaves them as they were.
C27_AttachDetachIdempotent ==
    [][/\ \A k \in PaperKeys, name \in TagNames :
            (/\ k \in DOMAIN papers
             /\ Attached(k, name)
             /\ AddTopicToPaper(k, name))
            => /\ lastResult' = "ok"
               /\ UNCHANGED <<papers, topics, paperTopics, saved, users>>
       /\ \A k \in PaperKeys, topicId \in DetachIds :
            (/\ k \in DOMAIN papers
             /\ <<k, topicId>> \notin paperTopics
             /\ RemoveTopicFromPaper(k, topicId))
            => /\ lastResult' = "ok"
               /\ UNCHANGED <<papers, topics, paperTopics, saved, users>>]_vars

\* the tag editor attached Agent, the only Topic, to one paper; the other
\* paper is there without an edge, and the last call returned normally
C27_Witness ==
    /\ DOMAIN papers = PaperKeys
    /\ topics = {[id |-> 1, name |-> "Agent"]}
    /\ paperTopics = {<<Bare1, 1>>}
    /\ lastResult = "ok"
    /\ \A c \in Emails : calls[c].pc = "idle"

----------------------------------------------------------------------------
(* Properties of the merge (SpecCuration) *)

\* the step is a merge into paper k: by a unit, or by a regenerate that
\* returns success
MergeStep(k) ==
    \/ \E u \in AllUnits : u.paperId = k /\ EnrichmentMerges(u)
    \/ RegenerateSummary(k) /\ lastResult' = "success"

\* C28 as stated: a merge that goes through, by a unit or by
\* regenerateSummaryAction, leaves the Paper with the summary and the
\* institution of the analysis it merged, whatever the two columns held
\* before: values that were not null are overwritten, and the empty
\* institution of the fallback overwrites too.
C28_MergeOverwrites ==
    [][\A k \in PaperKeys, text \in ModelTexts :
          (/\ k \in DOMAIN papers
           /\ papers' # papers
           /\ MergesResult(k, text)
           /\ MergeStep(k))
          => /\ papers'[k].summary = AsColumn(AnalysisOf(text).value.summary)
             /\ papers'[k].institution =
                    AsColumn(AnalysisOf(text).value.institution)]_vars

----------------------------------------------------------------------------
(* More properties of identifier normalisation (SpecNorm) *)

\* C29 as stated: for every input, getCleanId's result begins with neither
\* http://arxiv.org/abs/ nor https://arxiv.org/abs/, and getCleanId of the
\* result is the result.
C29_NormalizedHasNoPrefix ==
    norm.done =>
        /\ ~StartsWith(norm.bare, HttpAbsPrefix)
        /\ ~StartsWith(norm.bare, HttpsAbsPrefix)
        /\ norm.twice = norm.bare

\* C30 as stated: for a bare id, the URL-encoded form of its absolute URL
\* comes out as the bare id itself, by getCleanId or, where the encoded form
\* arrives, by the extraction of getPaperByIdAction followed by getCleanId.
C30_EncodedFormNormalizes ==
    (norm.done /\ IsBareId(rawId)) =>
        /\ norm.bare = rawId
        /\ norm.enc = rawId \/ norm.page = rawId

----------------------------------------------------------------------------
(* More properties of analyzePdfBuffer (SpecAnalyze) *)

\* C31: when GEMINI_API_KEY is not set, analyzePdfBuffer throws the error
\* that names the missing key and has made no request to the model,
\* whatever the model would have answered and whether or not it could be
\* reached; the buffer is not read before the throw.
C31_NoKeyFailsBeforeRequest ==
    (analysis.done /\ ~apiKeySet) =>
        /\ analysis.out.kind = "throw"
        /\ analysis.error = "GEMINI_API_KEY not found in environment variables."
        /\ analysis.requests = 0

\* without the key, a call whose model was reachable and had a good answer
C31_Witness ==
    /\ analysis.done
    /\ ~apiKeySet
    /\ analysis.transportOk
    /\ modelText = <<"{A}">>
    /\ analysis.requests = 0

----------------------------------------------------------------------------
(* Properties of calls without a session (SpecSession) *)

WithoutSession ==
    \/ \E r \in Records : SaveUnauthorized(r)
    \/ \E k \in PaperKeys : DeleteUnauthorized(k)
    \/ ListSavedUnauthorized
    \/ \E k \in PaperKeys : GetPaperUnauthorized(k)

----------------------------------------------------------------------------
(* Properties of the User rows (Spec) *)

HasUser(us, c) == \E u \in us : u.email = c
ActsAs(c) ==
    \/ \E r \in Records : SavePaperUpsert(c, r)
    \/ \E k \in PaperKeys : DeletePaper(c, k)

\* C33: there is never more than one User row for an email. An action of a
\* signed-in identity leaves a row for it; the User rows change only by one
\* row added for an identity that had none, so a row that exists is reused
\* and none is deleted or rewritten.
C33_OneUserPerEmail ==
    /\ [](\A u1, u2 \in users : u1.email = u2.email => u1 = u2)
    /\ [][\A c \in Emails : HasUser(users', c) \/ ~ActsAs(c)]_vars
    /\ [][\/ users' = users
          \/ \E c \in Emails :
                /\ ~HasUser(users, c)
                /\ users \subseteq users'
                /\ \E u \in users' : users' \ users = {u} /\ u.email = c
                /\ ActsAs(c)]_vars

\* two identities have made more saves than there are identities and have
\* deleted every link again: both rows are there
C33_Witness ==
    /\ Cardinality(users) = 2
    /\ nSaves = MaxSaves
    /\ saved = {}
    /\ lastResult = "ok"

----------------------------------------------------------------------------
(* Properties of the spawning of enrichment units (Spec) *)

\* the units a save of record r leaves pending, given those pending before
UnitsAfterSave(r) ==
    IF r.pdfLink \notin {Null, Undefined, EmptyStr}
    THEN [units EXCEPT ![UnitOf(r)] = @ + 1]
    ELSE units

\* C34: a save starts one enrichment unit if its record has a PDF link that
\* is present and not empty, and none otherwise, whether or not the pair
\* was linked or the paper had a summary before. The pending units change
\* in no other way than by such a save adding one or by one unit ending,
\* in its merge or in its catch: a unit that ended is never pending again.
\* (A step that moves a caller, a link, the count of saves or the result
\* of the last call is a step of a server action, not of a unit.)
C34_OneUnitPerSave ==
    /\ [][\A c \in Emails :
            \/ calls[c].pc # "link"
            \/ units' = UnitsAfterSave(calls[c].rec)
            \/ ~SaveLinkAndReturn(c)]_vars
    /\ [][\/ units' = units
          \/ \E c \in Emails :
                /\ calls[c].pc = "link"
                /\ units' = UnitsAfterSave(calls[c].rec)
                /\ calls'[c].pc = "idle"
          \/ \E u \in AllUnits :
                /\ units[u] > 0
                /\ units' = [units EXCEPT ![u] = @ - 1]
                /\ <<calls, saved, nSaves>>' = <<calls, saved, nSaves>>]_vars
    /\ [][\A u \in AllUnits :
            \/ units[u] = 0
            \/ units'[u] = units[u] - 1
            \/ <<calls, saved, nSaves, lastResult>>' #
                   <<calls, saved, nSaves, lastResult>>
            \/ ~(EnrichmentFails(u) \/ EnrichmentMerges(u))]_vars

\* two saves of one record have returned, the second on a pair that was
\* linked already: one of the two units has merged, the other is pending
C34_Witness ==
    /\ nSaves = 2
    /\ \A c \in Emails : calls[c].pc = "idle"
    /\ Cardinality(saved) = 1
    /\ Cardinality(users) = 1
    /\ failedLog = {}
    /\ \E u \in AllUnits :
          /\ units[u] = 1
          /\ papers[u.paperId].summary # Null

----------------------------------------------------------------------------
(* More properties of fetchWithRetry (SpecSearch) *)

\* C35: only a 429 answer is retried. A request that fails in any other way
\* is the last request of its call, no wait follows it, and the call has
\* returned the empty list; when it is the first request, the call made
\* exactly one request and never waited.
C35_OnlyRateLimitIsRetried ==
    /\ \A i \in 1..Len(responses) :
          responses[i] = "error" =>
              /\ i = Len(responses)
              /\ attempts = i
              /\ Len(waits) = i - 1
              /\ spc = "returned"
              /\ sresult = <<>>
    /\ \A i \in 1..Len(waits) : responses[i] = "429"

C35_Witness ==
    /\ responses = <<"error">>
    /\ attempts = 1
    /\ waits = <<>>
    /\ spc = "returned"
    /\ feed.kind = "feed" /\ Len(feed.entry) = 2

RECURSIVE SumOf(_)
SumOf(s) == IF s = <<>> THEN 0 ELSE Head(s) + SumOf(Tail(s))

\* C36: the waits of one search call are 1000, 2000 and 4000 ms, in that
\* order and as far as the call gets; together they never exceed 7000 ms.
C36_WaitsDouble ==
    /\ Len(waits) <= 3
    /\ waits = SubSeq(<<1000, 2000, 4000>>, 1, Len(waits))
    /\ SumOf(waits) <= 7000

C36_Witness ==
    /\ waits = <<1000, 2000, 4000>>
    /\ SumOf(waits) = 7000
    /\ attempts = 4

----------------------------------------------------------------------------
(* More properties of the merge (SpecCuration) *)

NamesIn(result) == {TopicsOf(result)[i] : i \in 1..Len(TopicsOf(result))}

\* C37 as stated: a merge that goes through, by a unit or by
\* regenerateSummaryAction, removes no topic edge: the names of the paper's
\* topics after it are those before it together with those of the merged
\* result, so a paper can come to carry more than three topics, while its
\* summary and its institution are those of the result merged last.
C37_MergeAddsTopics ==
    [][\A k \in PaperKeys, text \in ModelTexts :
          \/ k \notin DOMAIN papers
          \/ AnalysisOf(text).kind # "value"
          \/ /\ EdgesOf(paperTopics, k) \subseteq EdgesOf(paperTopics', k)
             /\ TopicNamesOf(k)' =
                    TopicNamesOf(k) \cup NamesIn(AnalysisOf(text).value)
             /\ papers'[k].summary = AsColumn(AnalysisOf(text).value.summary)
             /\ papers'[k].institution =
                    AsColumn(AnalysisOf(text).value.institution)
          \/ ~(MergesResult(k, text) /\ MergeStep(k))]_vars

----------------------------------------------------------------------------
(* Properties of a unit that outlives the link (SpecSession) *)

Linked(sv, k) == \E s \in sv : s.paperId = k

\* C38: deletePaperAction leaves the pending enrichment units and the Paper
\* rows as they are, so a pending unit always finds its Paper row. A unit
\* that merges into a paper no user has a link to writes the summary, the
\* institution and the topics of its result to the row as it would
\* otherwise, and creates no SavedPaper row.
C38_UnitOutlivesLink ==
    /\ [](\A u \in AllUnits : units[u] > 0 => u.paperId \in DOMAIN papers)
    /\ [][\A c \in Emails, k \in PaperKeys :
            \/ units' = units /\ papers' = papers
            \/ ~DeletePaper(c, k)]_vars
    /\ [][\A u \in AllUnits, text \in ModelTexts :
            \/ units[u] = 0
            \/ Linked(saved, u.paperId)
            \/ AnalysisOf(text).kind # "value"
            \/ LET k == u.paperId
                   result == AnalysisOf(text).value
               IN /\ saved' = saved
                  /\ papers'[k].summary = SetField(papers[k].summary,
                                                   result.summary)
                  /\ papers'[k].institution = SetField(papers[k].institution,
                                                       result.institution)
                  /\ papers'[k].summary # Null
                  /\ TopicNamesOf(k)' = TopicNamesOf(k) \cup NamesIn(result)
            \/ ~(MergesResult(u.paperId, text) /\ EnrichmentMerges(u))]_vars

\* the one user who saved the paper has removed it again: the Paper row is
\* there without a link and without a summary, and the unit of the save is
\* still pending
C38_Witness ==
    /\ nSaves = 1
    /\ saved = {}
    /\ lastResult = "ok"
    /\ \A c \in Emails : calls[c].pc = "idle"
    /\ \E u \in AllUnits :
          /\ units[u] = 1
          /\ u.paperId \in DOMAIN papers
          /\ papers[u.paperId].summary = Null

----------------------------------------------------------------------------
(* More properties of the tag editor (SpecCuration) *)

\* C39 as stated: addTopicToPaperAction with a paper id that has no Paper
\* row raises and leaves the Paper rows, the Topic rows and the topic edges
\* as they were; no Topic row without an edge is left behind by it.
C39_AttachToMissingPaperWritesNothing ==
    [][\A k \in PaperKeys, name \in TagNames :
          \/ k \in DOMAIN papers
          \/ /\ lastResult' = "raised"
             /\ UNCHANGED <<papers, topics, paperTopics>>
          \/ ~AddTopicToPaper(k, name)]_vars
====
